---- MODULE Spec2Model ----
(***************************************************************************)
(* A model of the HomeKit bridge component: the accessory-id allocator     *)
(* (aidmanager.py), the debounce decorator and the accessory base class    *)
(* (accessories.py), the lock, thermostat and media-player adapters, and   *)
(* the HomeKit class with the accessory mapper (__init__.py).              *)
(*                                                                         *)
(* Each component has its own specification over its own variables; the    *)
(* variables of the other components keep their initial values.            *)
(***************************************************************************)
EXTENDS Integers, Sequences, FiniteSets, TLC

VARIABLES
    \* ---- AccessoryAidStorage (aidmanager.py) ----
    initialized,     \* async_initialize has run on the current object
    allocations,     \* self.allocations: unique_id -> aid
    allocated_aids,  \* self.allocated_aids
    store,           \* what the Store holds on disk: [data, unique_ids]
    save_timer,      \* delay left of the scheduled save, or NoTimer
    aid_result,      \* the last call on the allocator and what it returned
    returned_aids,   \* per unique_id: the aids returned since it was last deleted
    last_freed,      \* {<<unique_id, aid>>} of the latest delete_aid, until saved
    restarts         \* how often the host was restarted

aidVars == <<initialized, allocations, allocated_aids, store, save_timer,
             aid_result, returned_aids, last_freed, restarts>>

VARIABLES
    \* ---- one accessory (accessories.py, type_*.py) and the host around it ----
    kind,            \* the accessory class: "Lock", "Thermostat", ...
    conf,            \* what the constructor read: config entry and entity state
    chars,           \* the value of each characteristic of the accessory
    flags,           \* the _flag_* attributes
    debounce,        \* self.debounce: setter name -> pending write
    timers,          \* the point-in-time listeners the host holds
    now,             \* the clock of the host
    executor_jobs,   \* jobs given to hass.async_add_executor_job, not yet run
    loop_jobs,       \* jobs given to hass.add_job, not yet run
    hub_calls,       \* the service calls the hub has received, in order
    writes,          \* the controller writes so far, in order
    updates,         \* how many state changes the hub has sent
    forwarded,       \* flags whose controller write has reached the hub, until
                     \* a state change carrying the attribute is handled
    last_op          \* the handler that ran last, its input and what it did

accVars == <<kind, conf, chars, flags, debounce, timers, now, executor_jobs, loop_jobs,
             hub_calls, writes, updates, forwarded, last_op>>

VARIABLES
    \* ---- HomeKit (__init__.py), the bridge, the driver and the hub ----
    status,          \* self.status
    accessories,     \* self.bridge.accessories: aid -> accessory
    entity_config,   \* self._config: entity_id -> configuration
    entity_filter,   \* self._filter: the entity ids it lets pass
    hass_states,     \* hass.states.all(), in the order it is iterated
    driver,          \* the driver: the bridge it was given, jobs scheduled on it
    constructed,     \* how many accessory objects have been constructed
    configured,      \* the entity configuration HomeKit was constructed with
    adds,            \* the calls of add_bridge_accessory so far and what they did
    bridge_op,       \* the handler that ran last and the state it found
    handler_calls    \* how many handlers have run

bridgeVars == <<status, accessories, entity_config, entity_filter, hass_states,
                driver, constructed, configured, adds, bridge_op,
                handler_calls>>

VARIABLES
    \* ---- the constructors of Thermostat and WaterHeater ----
    ctor_kind,       \* the class that is constructed
    ctor_unit,       \* self._unit: hass.config.units.temperature_unit
    ctor_attributes, \* hass.states.get(self.entity_id).attributes
    properties       \* the properties each characteristic was configured with

ctorVars == <<ctor_kind, ctor_unit, ctor_attributes, properties>>

VARIABLES
    \* ---- the debounce decorator over several accessories ----
    self_debounce,   \* self.debounce of each accessory: func.__name__ -> entry
    listeners,       \* the point-in-time listeners the host holds
    utcnow,          \* dt_util.utcnow(), in seconds
    setter_writes,   \* the controller writes to debounced setters, in order
    setter_jobs,     \* hass.async_add_executor_job(func, self, *args), not yet run
    setter_runs      \* the setters the executor has run, with self and arguments

keyVars == <<self_debounce, listeners, utcnow, setter_writes, setter_jobs,
             setter_runs>>

VARIABLES
    \* ---- the threads of the host around HomeKit and its accessories ----
    start_pc,        \* where the executor thread that runs HomeKit.start is
    loop,            \* the jobs given to the event loop, in order
    driver_state,    \* the driver: "new", "running" or "stopped"
    tracked,         \* the accessory objects subscribed to their entity
    versions,        \* how many times each entity has changed its state
    delivered        \* the states update_state_callback got, by object

hostVars == <<start_pc, loop, driver_state, tracked, versions, delivered>>

vars == <<aidVars, accVars, bridgeVars, ctorVars, keyVars, hostVars>>

(***************************************************************************)
(* Text.  Entity ids and unique ids are strings; .encode("utf-8") is the   *)
(* table Utf8.  Two entity ids stand for long texts, given by their runs.  *)
(***************************************************************************)
Rep(c, n) == [i \in 1..n |-> c]

\* "lock." followed by 19 a, 277 z, 23 a, 222 z, b: an entity id whose adler32 is 1
LongIdOne == "lock.a19z277a23z222b"
\* "lock." followed by 2 a, 279 z, 50 a, 212 z, g: an entity id whose adler32 is 0
LongIdZero == "lock.a2z279a50z212g"

LockDot == <<108, 111, 99, 107, 46>>

Utf8(s) ==
    CASE s = "lock.bdb" -> LockDot \o <<98, 100, 98>>
      [] s = "lock.cbc" -> LockDot \o <<99, 98, 99>>
      [] s = "lock.x"   -> LockDot \o <<120>>
      [] s = LongIdOne  -> LockDot \o Rep(97, 19) \o Rep(122, 277) \o Rep(97, 23)
                             \o Rep(122, 222) \o <<98>>
      [] s = LongIdZero -> LockDot \o Rep(97, 2) \o Rep(122, 279) \o Rep(97, 50)
                             \o Rep(122, 212) \o <<103>>
      [] s = "z.lock.ywbb" -> <<122, 46>> \o LockDot \o <<121, 119, 98, 98>>
      [] s = "z.lock.ywba" -> <<122, 46>> \o LockDot \o <<121, 119, 98, 97>>
      [] s = "z.lock.1unw" -> <<122, 46>> \o LockDot \o <<49, 117, 110, 119>>
      [] s = "switch.pump" -> <<115, 119, 105, 116, 99, 104, 46, 112, 117, 109, 112>>
      [] s = "sun.sun" -> <<115, 117, 110, 46, 115, 117, 110>>
      [] s = "media_player.tv" ->
            <<109, 101, 100, 105, 97, 95, 112, 108, 97, 121, 101, 114, 46, 116, 118>>
      [] s = "cover.door" -> <<99, 111, 118, 101, 114, 46, 100, 111, 111, 114>>
      [] s = "sensor.air" -> <<115, 101, 110, 115, 111, 114, 46, 97, 105, 114>>
      [] s = "sensor.co2" -> <<115, 101, 110, 115, 111, 114, 46, 99, 111, 50>>
      [] s = "pm25" -> <<112, 109, 50, 53>>
      [] s = "co2" -> <<99, 111, 50>>

(***************************************************************************)
(* zlib.adler32 and fnvhash.fnv1a_32, computed on the bytes.               *)
(***************************************************************************)
\* The running pair <<a, b>> after the bytes lo..hi; the text is halved so that
\* the evaluation of a long text stays shallow (a and b are never negative:
\* the test on left[1] only makes the left half's value be computed first).
RECURSIVE AdlerOver(_, _, _, _)
AdlerOver(bytes, lo, hi, ab) ==
    IF lo > hi THEN ab
    ELSE IF lo = hi
    THEN LET a2 == (ab[1] + bytes[lo]) % 65521
         IN  <<a2, (ab[2] + a2) % 65521>>
    ELSE LET mid == (lo + hi) \div 2
             left == AdlerOver(bytes, lo, mid, ab)
         IN  IF left[1] >= 0 THEN AdlerOver(bytes, mid + 1, hi, left) ELSE left

adler32(bytes) ==
    LET ab == AdlerOver(bytes, 1, Len(bytes), <<1, 0>>) IN ab[2] * 65536 + ab[1]

RECURSIVE Xor(_, _)
Xor(x, y) ==
    IF x = 0 THEN y
    ELSE IF y = 0 THEN x
    ELSE (((x % 2) + (y % 2)) % 2) + 2 * Xor(x \div 2, y \div 2)

\* One round on the 32-bit value hi * 2^16 + lo: xor the byte in, multiply by
\* the FNV prime 16777619 = 2^24 + 403, keep 32 bits.
FnvRound(h, byte) ==
    LET lo == Xor(h[2], byte)
        hi == h[1]
        lo403 == lo * 403
    IN  << (hi * 403 + (lo403 \div 65536) + (lo % 256) * 256) % 65536,
           lo403 % 65536 >>

RECURSIVE FnvFrom(_, _, _)
FnvFrom(bytes, i, h) ==
    IF i > Len(bytes) THEN h ELSE FnvFrom(bytes, i + 1, FnvRound(h, bytes[i]))

\* offset basis 0x811c9dc5 = <<0x811c, 0x9dc5>>
fnv1a_32(bytes) ==
    LET h == FnvFrom(bytes, 1, <<33052, 40389>>) IN h[1] * 65536 + h[2]

(***************************************************************************)
(* AccessoryAidStorage.                                                    *)
(***************************************************************************)
AID_MANAGER_SAVE_DELAY == 2
INVALID_AIDS == {0, 1}
AID_MIN == 2
\* range(5) in _generate_aids
RandomTries == 5
\* restarts of the host in one run
MaxRestarts == 1

EntityIds == {"lock.bdb", "lock.cbc", "lock.x", LongIdOne, LongIdZero}

\* The entity registry of the host: the entities that have an entry.
\* "lock.x" and LongIdZero have none.
EntityRegistry ==
    [e \in {"lock.bdb", "lock.cbc", LongIdOne} |->
        [entity_id |-> e, platform |-> "z", domain |-> "lock",
         unique_id |-> CASE e = "lock.bdb" -> "ywbb"
                         [] e = "lock.cbc" -> "ywba"
                         [] e = LongIdOne  -> "1unw"]]

get_system_unique_id(entity) ==
    entity.platform \o "." \o entity.domain \o "." \o entity.unique_id

UniqueIds == {get_system_unique_id(EntityRegistry[e]) : e \in DOMAIN EntityRegistry}

\* The hashes of the texts of the model, computed once.
AdlerOf == [e \in EntityIds |-> adler32(Utf8(e))]
FnvOf == [u \in UniqueIds |-> fnv1a_32(Utf8(u))]

\* random.randrange(AID_MIN, AID_MAX) draws from 2 .. 2^64 - 2.  The draws of the
\* model are two values of that range: one that is the strong hash of a unique
\* id of the model, and one that is no hash of the model.
RandomAids == {FnvOf["z.lock.ywba"], 2147483647}

Range(f) == {f[x] : x \in DOMAIN f}

NoTimer == -1
NoData == [data |-> FALSE, unique_ids |-> <<>>]
Saved(table) == [data |-> TRUE, unique_ids |-> table]

\* What the Store may hold when the program starts: nothing, or the table of
\* an earlier run.
InitialStores == {NoData, Saved("z.lock.ywbb" :> 2147483647)}

NoCall == [op |-> "none", entity_id |-> "", unique_id |-> "", returned |-> FALSE,
           aid |-> 0, raised |-> FALSE, tried |-> 0, cands |-> <<>>]

\* The candidates _generate_aids yields, in order; draws are the values the
\* five random.randrange calls would give.
generate_aids_strong_first(unique_id, entity_id, draws) ==
    <<FnvOf[unique_id], AdlerOf[entity_id]>> \o draws

generate_aids_one_more(unique_id, entity_id, draws) ==
    <<AdlerOf[entity_id], FnvOf[unique_id]>> \o draws \o <<draws[1]>>

generate_aids(unique_id, entity_id, draws) ==
    <<AdlerOf[entity_id], FnvOf[unique_id]>> \o draws

\* The loop of _get_or_allocate_aid from candidate i on: the index of the
\* candidate it allocates, or 0 when the candidates run out.
RECURSIVE FirstUsable_unchecked(_, _, _)
FirstUsable_unchecked(cands, i, allocated) ==
    IF i > Len(cands) THEN 0
    ELSE IF cands[i] \in INVALID_AIDS THEN FirstUsable_unchecked(cands, i + 1, allocated)
    ELSE i

RECURSIVE FirstUsable(_, _, _)
FirstUsable(cands, i, allocated) ==
    IF i > Len(cands) THEN 0
    ELSE IF cands[i] \in INVALID_AIDS THEN FirstUsable(cands, i + 1, allocated)
    ELSE IF cands[i] \notin allocated THEN i
    ELSE FirstUsable(cands, i + 1, allocated)

\* Store.async_delay_save: (re)schedules the write AID_MANAGER_SAVE_DELAY from now.
\* a mutation that schedules nothing
async_schedule_save_skipped == UNCHANGED save_timer

async_schedule_save == save_timer' = AID_MANAGER_SAVE_DELAY

\* _data_to_save, called by the Store when it writes.
data_to_save == Saved(allocations)

AidInit ==
    /\ initialized = FALSE
    /\ allocations = <<>>
    /\ allocated_aids = {}
    /\ store \in InitialStores
    /\ save_timer = NoTimer
    /\ aid_result = NoCall
    /\ returned_aids = [u \in UniqueIds |-> {}]
    /\ last_freed = {}
    /\ restarts = 0

async_initialize_no_load ==
    /\ ~initialized
    /\ initialized' = TRUE
    /\ aid_result' = [NoCall EXCEPT !.op = "async_initialize"]
    /\ UNCHANGED <<allocations, allocated_aids, store, save_timer, returned_aids,
                   last_freed, restarts>>

\* async_initialize without line 90: the table is loaded, the set is not
async_initialize_table_only ==
    /\ ~initialized
    /\ initialized' = TRUE
    /\ IF ~store.data
       THEN UNCHANGED <<allocations, allocated_aids>>
       ELSE /\ allocations' = store.unique_ids
            /\ UNCHANGED allocated_aids
    /\ aid_result' = [NoCall EXCEPT !.op = "async_initialize"]
    /\ UNCHANGED <<store, save_timer, returned_aids, last_freed, restarts>>

async_initialize ==
    /\ ~initialized
    /\ initialized' = TRUE
    /\ IF ~store.data
       THEN UNCHANGED <<allocations, allocated_aids>>
       ELSE /\ allocations' = store.unique_ids
            /\ allocated_aids' = Range(store.unique_ids)
    /\ aid_result' = [NoCall EXCEPT !.op = "async_initialize"]
    /\ UNCHANGED <<store, save_timer, returned_aids, last_freed, restarts>>

get_or_allocate_aid(unique_id, entity_id, draws) ==
    IF unique_id \in DOMAIN allocations
    THEN /\ aid_result' = [NoCall EXCEPT !.op = "get_or_allocate_aid",
                              !.entity_id = entity_id, !.unique_id = unique_id,
                              !.returned = TRUE, !.aid = allocations[unique_id]]
         /\ returned_aids' = [returned_aids EXCEPT
                                 ![unique_id] = @ \cup {allocations[unique_id]}]
         /\ UNCHANGED <<allocations, allocated_aids, save_timer>>
    ELSE LET cands == generate_aids(unique_id, entity_id, draws)
             k == FirstUsable(cands, 1, allocated_aids)
         IN  IF k = 0
             THEN /\ aid_result' = [NoCall EXCEPT !.op = "get_or_allocate_aid",
                                       !.entity_id = entity_id,
                                       !.unique_id = unique_id, !.raised = TRUE,
                                       !.tried = Len(cands), !.cands = cands]
                  /\ UNCHANGED <<allocations, allocated_aids, save_timer,
                                 returned_aids>>
             ELSE /\ allocations' = (unique_id :> cands[k]) @@ allocations
                  /\ allocated_aids' = allocated_aids \cup {cands[k]}
                  /\ async_schedule_save
                  /\ aid_result' = [NoCall EXCEPT !.op = "get_or_allocate_aid",
                                       !.entity_id = entity_id,
                                       !.unique_id = unique_id, !.returned = TRUE,
                                       !.aid = cands[k], !.tried = k,
                                       !.cands = SubSeq(cands, 1, k)]
                  /\ returned_aids' = [returned_aids EXCEPT
                                          ![unique_id] = @ \cup {cands[k]}]

\* The entity has no registry entry: the warning, and adler32 of the entity id.
fallback_aid_recorded(entity_id) ==
    /\ aid_result' = [NoCall EXCEPT !.op = "fallback", !.entity_id = entity_id,
                         !.returned = TRUE, !.aid = AdlerOf[entity_id]]
    /\ allocated_aids' = allocated_aids \cup {AdlerOf[entity_id]}
    /\ UNCHANGED <<allocations, save_timer, returned_aids>>

fallback_aid(entity_id) ==
    /\ aid_result' = [NoCall EXCEPT !.op = "fallback", !.entity_id = entity_id,
                         !.returned = TRUE, !.aid = AdlerOf[entity_id]]
    /\ UNCHANGED <<allocations, allocated_aids, save_timer, returned_aids>>

get_or_allocate_aid_for_entity_id(entity_id, draws) ==
    /\ initialized
    /\ IF entity_id \in DOMAIN EntityRegistry
       THEN LET entity == EntityRegistry[entity_id]
            IN  get_or_allocate_aid(get_system_unique_id(entity), entity.entity_id,
                                    draws)
       ELSE fallback_aid(entity_id)
    /\ UNCHANGED <<initialized, store, last_freed, restarts>>

delete_aid_keeps_aid(unique_id) ==
    /\ initialized
    /\ aid_result' = [NoCall EXCEPT !.op = "delete_aid", !.unique_id = unique_id]
    /\ IF unique_id \notin DOMAIN allocations
       THEN UNCHANGED <<allocations, allocated_aids, save_timer, returned_aids,
                        last_freed>>
       ELSE /\ allocations' = [u \in DOMAIN allocations \ {unique_id} |->
                                  allocations[u]]
            /\ async_schedule_save
            /\ returned_aids' = [returned_aids EXCEPT ![unique_id] = {}]
            /\ last_freed' = {<<unique_id, allocations[unique_id]>>}
            /\ UNCHANGED allocated_aids
    /\ UNCHANGED <<initialized, store, restarts>>

\* delete_aid that schedules the save before it looks for the entry
delete_aid_saves_first(unique_id) ==
    /\ initialized
    /\ aid_result' = [NoCall EXCEPT !.op = "delete_aid", !.unique_id = unique_id]
    /\ async_schedule_save
    /\ IF unique_id \notin DOMAIN allocations
       THEN UNCHANGED <<allocations, allocated_aids, returned_aids, last_freed>>
       ELSE LET aid == allocations[unique_id]
            IN  /\ allocations' = [u \in DOMAIN allocations \ {unique_id} |->
                                      allocations[u]]
                /\ allocated_aids' = allocated_aids \ {aid}
                /\ returned_aids' = [returned_aids EXCEPT ![unique_id] = {}]
                /\ last_freed' = {<<unique_id, aid>>}
    /\ UNCHANGED <<initialized, store, restarts>>

delete_aid(unique_id) ==
    /\ initialized
    /\ aid_result' = [NoCall EXCEPT !.op = "delete_aid", !.unique_id = unique_id]
    /\ IF unique_id \notin DOMAIN allocations
       THEN UNCHANGED <<allocations, allocated_aids, save_timer, returned_aids,
                        last_freed>>
       ELSE LET aid == allocations[unique_id]
            IN  /\ allocations' = [u \in DOMAIN allocations \ {unique_id} |->
                                      allocations[u]]
                /\ allocated_aids' = allocated_aids \ {aid}
                /\ async_schedule_save
                /\ returned_aids' = [returned_aids EXCEPT ![unique_id] = {}]
                /\ last_freed' = {<<unique_id, aid>>}
    /\ UNCHANGED <<initialized, store, restarts>>

\* Time passes while a save is scheduled.
SaveDelayTick ==
    /\ save_timer > 0
    /\ save_timer' = save_timer - 1
    /\ aid_result' = [NoCall EXCEPT !.op = "tick"]
    /\ UNCHANGED <<initialized, allocations, allocated_aids, store,
                   returned_aids, last_freed, restarts>>

\* The delay has elapsed: the Store calls _data_to_save and writes.
StoreWrite ==
    /\ save_timer = 0
    /\ store' = data_to_save
    /\ save_timer' = NoTimer
    /\ last_freed' = {}
    /\ aid_result' = [NoCall EXCEPT !.op = "store_write"]
    /\ UNCHANGED <<initialized, allocations, allocated_aids, returned_aids,
                   restarts>>

\* The host stops and starts again: the Store writes what is pending when the
\* host stops, and a new AccessoryAidStorage is constructed.
Restart ==
    /\ initialized
    /\ restarts < MaxRestarts
    /\ restarts' = restarts + 1
    /\ store' = IF save_timer # NoTimer THEN data_to_save ELSE store
    /\ save_timer' = NoTimer
    /\ last_freed' = {}
    /\ initialized' = FALSE
    /\ allocations' = <<>>
    /\ allocated_aids' = {}
    /\ aid_result' = [NoCall EXCEPT !.op = "restart"]
    /\ UNCHANGED returned_aids

\* _generate_aids is a generator: it draws a random value only when the loop
\* asks for one more candidate, that is, when the two hashes were refused.
DrawsFor(entity_id) ==
    IF /\ entity_id \in DOMAIN EntityRegistry
       /\ get_system_unique_id(EntityRegistry[entity_id]) \notin DOMAIN allocations
       /\ FirstUsable(<<AdlerOf[entity_id],
                        FnvOf[get_system_unique_id(EntityRegistry[entity_id])]>>,
                      1, allocated_aids) = 0
    THEN [1..RandomTries -> RandomAids]
    ELSE {[i \in 1..RandomTries |-> CHOOSE r \in RandomAids : TRUE]}

AidNext ==
    \/ async_initialize /\ UNCHANGED <<accVars, bridgeVars, ctorVars, keyVars, hostVars>>
    \/ \E e \in EntityIds : \E draws \in DrawsFor(e) :
          get_or_allocate_aid_for_entity_id(e, draws) /\ UNCHANGED <<accVars, bridgeVars, ctorVars, keyVars, hostVars>>
    \/ \E u \in UniqueIds : delete_aid(u) /\ UNCHANGED <<accVars, bridgeVars, ctorVars, keyVars, hostVars>>
    \/ SaveDelayTick /\ UNCHANGED <<accVars, bridgeVars, ctorVars, keyVars, hostVars>>
    \/ StoreWrite /\ UNCHANGED <<accVars, bridgeVars, ctorVars, keyVars, hostVars>>
    \/ Restart /\ UNCHANGED <<accVars, bridgeVars, ctorVars, keyVars, hostVars>>


(***************************************************************************)
(* Accessories: value tables and unit conversion.                          *)
(***************************************************************************)
\* clock ticks of the delay of the debounce decorator
DEBOUNCE_TIMEOUT == 2
\* bounds of a run
MaxWrites == 2
MaxUpdates == 2
MaxTime == 4

TEMP_CELSIUS == "C"
TEMP_FAHRENHEIT == "F"

STATE_LOCKED == "locked"
STATE_UNLOCKED == "unlocked"
STATE_UNKNOWN == "unknown"

\* type_locks.py
HASS_TO_HOMEKIT == (STATE_UNLOCKED :> 0) @@ (STATE_LOCKED :> 1) @@ (STATE_UNKNOWN :> 3)
HOMEKIT_TO_HASS == [c \in Range(HASS_TO_HOMEKIT) |->
                       CHOOSE st \in DOMAIN HASS_TO_HOMEKIT : HASS_TO_HOMEKIT[st] = c]
STATE_TO_SERVICE == (STATE_LOCKED :> "lock") @@ (STATE_UNLOCKED :> "unlock")

\* type_thermostats.py; the dict literal in its order
HC_ORDER == <<"off", "heat", "cool", "auto", "heat_cool", "fan_only">>
HC_HASS_TO_HOMEKIT ==
    ("off" :> 0) @@ ("heat" :> 1) @@ ("cool" :> 2) @@ ("auto" :> 3)
        @@ ("heat_cool" :> 3) @@ ("fan_only" :> 2)
UNIT_HASS_TO_HOMEKIT == (TEMP_CELSIUS :> 0) @@ (TEMP_FAHRENHEIT :> 1)
HC_HASS_TO_HOMEKIT_ACTION ==
    ("off" :> 0) @@ ("idle" :> 0) @@ ("heating" :> 1) @@ ("cooling" :> 2)

\* {c: s for s, c in items}: of the keys that pass, the last one in dict
\* order wins for each value.
RECURSIVE InvertFrom(_, _, _, _)
InvertFrom(order, table, keep, i) ==
    IF i > Len(order) THEN <<>>
    ELSE IF order[i] \in keep
    THEN InvertFrom(order, table, keep, i + 1) @@ (table[order[i]] :> order[i])
    ELSE InvertFrom(order, table, keep, i + 1)

HC_HOMEKIT_TO_HASS ==
    InvertFrom(HC_ORDER, HC_HASS_TO_HOMEKIT, DOMAIN HC_HASS_TO_HOMEKIT, 1)

\* The table of the modes the entity has, with no preference.
hc_homekit_to_hass_unfiltered(hc_modes) ==
    InvertFrom(HC_ORDER, HC_HASS_TO_HOMEKIT,
               {m \in DOMAIN HC_HASS_TO_HOMEKIT : m \in hc_modes}, 1)

\* Thermostat.__init__: prefer auto over heat_cool and cool over fan_only.
hc_homekit_to_hass(hc_modes) ==
    InvertFrom(HC_ORDER, HC_HASS_TO_HOMEKIT,
               {m \in DOMAIN HC_HASS_TO_HOMEKIT :
                   /\ m \in hc_modes
                   /\ ~ \/ (m = "heat_cool" /\ "auto" \in hc_modes)
                        \/ (m = "fan_only" /\ "cool" \in hc_modes)},
               1)

\* Temperatures are integers, in tenths of a degree.  n / d rounded to the
\* nearest integer (no value of the model falls on a half).
RoundNearest(n, d) == (2 * n + d) \div (2 * d)

\* util.temperature_to_homekit: to Celsius, rounded to 0.1
temperature_to_homekit(temperature, unit) ==
    IF unit = TEMP_FAHRENHEIT
    THEN RoundNearest((temperature - 320) * 5, 9)
    ELSE temperature

\* util.temperature_to_states: to the unit of the hub, rounded to 0.5
temperature_to_states(temperature, unit) ==
    IF unit = TEMP_FAHRENHEIT
    THEN 5 * RoundNearest(9 * temperature + 1600, 25)
    ELSE 5 * RoundNearest(temperature, 5)

(***************************************************************************)
(* What update_state does to the characteristics and flags.  A result      *)
(* holds the new characteristics and flags, the characteristics set_value  *)
(* was called on, the flags that kept a value from being written, and      *)
(* whether the handler ended in an exception.                              *)
(***************************************************************************)
Start(c, f) == [chars |-> c, flags |-> f, written |-> {}, suppressed |-> {},
                raised |-> FALSE]

\* char.set_value(value)
SetValue(r, char, value) ==
    [r EXCEPT !.chars = [@ EXCEPT ![char] = value], !.written = @ \cup {char}]

\* if <carried>: if not self.<flag>: char.set_value(value)
SetUnlessFlag(r, carried, flag, char, value) ==
    IF ~carried THEN r
    ELSE IF r.flags[flag] THEN [r EXCEPT !.suppressed = @ \cup {flag}]
    ELSE SetValue(r, char, value)

ClearFlag(r, flag) == [r EXCEPT !.flags = [@ EXCEPT ![flag] = FALSE]]

Has(st, attr) == attr \in DOMAIN st.attributes

\* Lock.update_state
Lock_update_state(c, f, st) ==
    IF st.state \notin DOMAIN HASS_TO_HOMEKIT THEN Start(c, f)
    ELSE LET current_lock_state == HASS_TO_HOMEKIT[st.state]
             r1 == SetValue(Start(c, f), "char_current_state", current_lock_state)
         IN  IF st.state \in {STATE_LOCKED, STATE_UNLOCKED}
             THEN ClearFlag(SetUnlessFlag(r1, TRUE, "flag_state",
                                          "char_target_state", current_lock_state),
                            "flag_state")
             ELSE r1

\* Thermostat.update_state, section by section
Thermostat_update_state(c, f, st, unit) ==
    LET Temp(attr) == temperature_to_homekit(st.attributes[attr], unit)
        r0 == Start(c, f)
        r1 == IF Has(st, "current_temperature")
              THEN SetValue(r0, "char_current_temp", Temp("current_temperature"))
              ELSE r0
        r2 == ClearFlag(
                  IF Has(st, "temperature")
                  THEN SetUnlessFlag(r1, TRUE, "flag_temperature",
                                     "char_target_temp", Temp("temperature"))
                  ELSE r1,
                  "flag_temperature")
        r3 == ClearFlag(
                  IF "char_cooling_thresh_temp" \in DOMAIN c
                     /\ Has(st, "target_temp_high")
                  THEN SetUnlessFlag(r2, TRUE, "flag_coolingthresh",
                                     "char_cooling_thresh_temp",
                                     Temp("target_temp_high"))
                  ELSE r2,
                  "flag_coolingthresh")
        r4 == ClearFlag(
                  IF "char_heating_thresh_temp" \in DOMAIN c
                     /\ Has(st, "target_temp_low")
                  THEN SetUnlessFlag(r3, TRUE, "flag_heatingthresh",
                                     "char_heating_thresh_temp",
                                     Temp("target_temp_low"))
                  ELSE r3,
                  "flag_heatingthresh")
        r5 == IF unit \in DOMAIN UNIT_HASS_TO_HOMEKIT
              THEN SetValue(r4, "char_display_units", UNIT_HASS_TO_HOMEKIT[unit])
              ELSE r4
        r6 == ClearFlag(
                  IF st.state \in DOMAIN HC_HASS_TO_HOMEKIT
                  THEN SetUnlessFlag(r5, TRUE, "flag_heat_cool",
                                     "char_target_heat_cool",
                                     HC_HASS_TO_HOMEKIT[st.state])
                  ELSE r5,
                  "flag_heat_cool")
    IN  IF ~Has(st, "hvac_action") THEN r6
        ELSE IF st.attributes.hvac_action \in DOMAIN HC_HASS_TO_HOMEKIT_ACTION
        THEN SetValue(r6, "char_current_heat_cool",
                      HC_HASS_TO_HOMEKIT_ACTION[st.attributes.hvac_action])
        ELSE [r6 EXCEPT !.raised = TRUE]

\* WaterHeater.update_state
WaterHeater_update_state(c, f, st, unit) ==
    LET r0 == Start(c, f)
        temperature == temperature_to_homekit(st.attributes.temperature, unit)
        r1 == ClearFlag(
                  IF Has(st, "temperature")
                  THEN SetUnlessFlag(SetValue(r0, "char_current_temp", temperature),
                                     TRUE, "flag_temperature", "char_target_temp",
                                     temperature)
                  ELSE r0,
                  "flag_temperature")
        r2 == IF unit \in DOMAIN UNIT_HASS_TO_HOMEKIT
              THEN SetValue(r1, "char_display_units", UNIT_HASS_TO_HOMEKIT[unit])
              ELSE r1
    IN  ClearFlag(IF st.state # ""
                  THEN SetUnlessFlag(r2, TRUE, "flag_heat_cool",
                                     "char_target_heat_cool", 1)
                  ELSE r2,
                  "flag_heat_cool")

\* MediaPlayer.async_update_state: each switch is set when its value differs
MEDIA_PLAYER_OFF_STATES == {"off", "unknown", "standby", "None"}

SetIfDiffers(r, char, value) ==
    IF char \in DOMAIN r.chars /\ r.chars[char] # value
    THEN SetValue(r, char, value)
    ELSE r

MediaPlayer_async_update_state(c, f, st) ==
    LET r1 == SetIfDiffers(Start(c, f), "on_off",
                           st.state \notin MEDIA_PLAYER_OFF_STATES)
        r2 == SetIfDiffers(r1, "play_pause", st.state = "playing")
        r3 == SetIfDiffers(r2, "play_stop", st.state = "playing")
    IN  SetIfDiffers(r3, "toggle_mute",
                     Has(st, "is_volume_muted") /\ st.attributes.is_volume_muted)

\* HomeAccessory.update_state, which MediaPlayer does not override
HomeAccessory_update_state(c, f, st) == [Start(c, f) EXCEPT !.raised = TRUE]

\* self.update_state(new_state) of the accessory class
update_state(c, f, st) ==
    CASE kind = "Lock" -> Lock_update_state(c, f, st)
      [] kind = "Thermostat" -> Thermostat_update_state(c, f, st, conf.unit)
      [] kind = "WaterHeater" -> WaterHeater_update_state(c, f, st, conf.unit)
      [] kind = "MediaPlayer" -> HomeAccessory_update_state(c, f, st)

\* The flag of each attribute a state change carries.
Carried(st) ==
    CASE kind = "Lock" ->
            IF st.state \in {STATE_LOCKED, STATE_UNLOCKED} THEN {"flag_state"} ELSE {}
      [] kind = "Thermostat" ->
            {fl \in DOMAIN flags :
                \/ fl = "flag_temperature" /\ Has(st, "temperature")
                \/ fl = "flag_coolingthresh" /\ Has(st, "target_temp_high")
                      /\ "char_cooling_thresh_temp" \in DOMAIN chars
                \/ fl = "flag_heatingthresh" /\ Has(st, "target_temp_low")
                      /\ "char_heating_thresh_temp" \in DOMAIN chars
                \/ fl = "flag_heat_cool" /\ st.state \in DOMAIN HC_HASS_TO_HOMEKIT}
      [] kind = "WaterHeater" ->
            {fl \in DOMAIN flags :
                \/ fl = "flag_temperature" /\ Has(st, "temperature")
                \/ fl = "flag_heat_cool" /\ st.state # ""}
      [] OTHER -> {}

\* The characteristic a flag guards.
CharOfFlag(fl) ==
    CASE fl = "flag_state" -> "char_target_state"
      [] fl = "flag_temperature" -> "char_target_temp"
      [] fl = "flag_coolingthresh" -> "char_cooling_thresh_temp"
      [] fl = "flag_heatingthresh" -> "char_heating_thresh_temp"
      [] fl = "flag_heat_cool" -> "char_target_heat_cool"

(***************************************************************************)
(* Accessories: construction.                                              *)
(***************************************************************************)
Kinds == {"Lock", "Thermostat", "WaterHeater", "MediaPlayer"}

\* new_state is None
None == [none |-> TRUE]

\* What the hub reports, in its unit, for a temperature given in Celsius.
HubTemp(celsius, unit) ==
    IF unit = TEMP_FAHRENHEIT THEN (9 * celsius) \div 5 + 320 ELSE celsius

\* The state changes the hub may send to an accessory.
HubStates(k, cf) ==
    CASE k = "Lock" ->
            {[state |-> st, attributes |-> <<>>] :
                st \in {STATE_LOCKED, STATE_UNLOCKED, STATE_UNKNOWN, "unavailable"}}
      [] k = "Thermostat" ->
            {[state |-> "heat",
              attributes |-> [current_temperature |-> HubTemp(200, cf.unit),
                              temperature |-> HubTemp(225, cf.unit),
                              hvac_action |-> "heating"]],
             [state |-> "heat_cool",
              attributes |-> [current_temperature |-> HubTemp(200, cf.unit),
                              target_temp_high |-> HubTemp(245, cf.unit),
                              target_temp_low |-> HubTemp(180, cf.unit),
                              hvac_action |-> "idle"]],
             [state |-> "unavailable", attributes |-> <<>>],
             [state |-> "cool",
              attributes |-> [temperature |-> HubTemp(245, cf.unit),
                              hvac_action |-> "drying"]]}
      [] k = "WaterHeater" ->
            {[state |-> "eco", attributes |-> [temperature |-> HubTemp(550, cf.unit)]],
             [state |-> "eco", attributes |-> <<>>],
             [state |-> "", attributes |-> [temperature |-> HubTemp(450, cf.unit)]]}
      [] k = "MediaPlayer" ->
            {[state |-> "playing", attributes |-> [is_volume_muted |-> TRUE]],
             [state |-> "paused", attributes |-> [is_volume_muted |-> FALSE]],
             [state |-> "off", attributes |-> <<>>]}

\* What the constructor reads: the config entry, the unit of the hub, the
\* attributes of the entity.
Confs(k) ==
    CASE k = "Lock" ->
            {[entity_id |-> "lock.front", code |-> code] : code \in {"", "1234"}}
      [] k = "Thermostat" ->
            {[entity_id |-> "climate.hall", unit |-> TEMP_CELSIUS, range |-> TRUE,
              hc_modes |-> {"heat", "cool", "heat_cool", "off"}],
             [entity_id |-> "climate.hall", unit |-> TEMP_FAHRENHEIT, range |-> FALSE,
              hc_modes |-> {"heat", "auto", "heat_cool", "fan_only", "off"}],
             [entity_id |-> "climate.hall", unit |-> TEMP_CELSIUS, range |-> FALSE,
              hc_modes |-> {"heat", "off"}]}
      [] k = "WaterHeater" ->
            {[entity_id |-> "water_heater.tank", unit |-> TEMP_CELSIUS]}
      [] k = "MediaPlayer" ->
            {[entity_id |-> "media_player.tv",
              feature_list |-> {"on_off", "play_pause", "play_stop", "toggle_mute"},
              state |-> st] :
                st \in {[state |-> "off", attributes |-> <<>>],
                        [state |-> "playing",
                         attributes |-> [is_volume_muted |-> FALSE]]}}

\* __init__ of each class: the characteristics and their first values
InitChars(k, cf) ==
    CASE k = "Lock" ->
            [char_current_state |-> HASS_TO_HOMEKIT[STATE_UNKNOWN],
             char_target_state |-> HASS_TO_HOMEKIT[STATE_LOCKED]]
      [] k = "Thermostat" ->
            [char_current_heat_cool |-> 0, char_target_heat_cool |-> 0,
             char_current_temp |-> 210, char_target_temp |-> 210,
             char_display_units |-> 0]
            @@ IF cf.range
               THEN [char_cooling_thresh_temp |-> 230, char_heating_thresh_temp |-> 190]
               ELSE <<>>
      [] k = "WaterHeater" ->
            [char_current_heat_cool |-> 1, char_target_heat_cool |-> 1,
             char_current_temp |-> 500, char_target_temp |-> 500,
             char_display_units |-> 0]
      [] k = "MediaPlayer" ->
            MediaPlayer_async_update_state(
                [feature \in cf.feature_list |-> FALSE], <<>>, cf.state).chars

InitFlags(k) ==
    CASE k = "Lock" -> [flag_state |-> FALSE]
      [] k = "Thermostat" ->
            [flag_heat_cool |-> FALSE, flag_temperature |-> FALSE,
             flag_coolingthresh |-> FALSE, flag_heatingthresh |-> FALSE]
      [] k = "WaterHeater" -> [flag_heat_cool |-> FALSE, flag_temperature |-> FALSE]
      [] k = "MediaPlayer" -> <<>>

\* setter_callback of each characteristic a controller may write
SetterOf(k) ==
    CASE k = "Lock" -> [char_target_state |-> "set_state"]
      [] k = "Thermostat" ->
            [char_target_heat_cool |-> "set_heat_cool",
             char_target_temp |-> "set_target_temperature",
             char_cooling_thresh_temp |-> "set_cooling_threshold",
             char_heating_thresh_temp |-> "set_heating_threshold"]
      [] k = "WaterHeater" ->
            [char_target_heat_cool |-> "set_heat_cool",
             char_target_temp |-> "set_target_temperature"]
      [] k = "MediaPlayer" ->
            [on_off |-> "set_on_off", play_pause |-> "set_play_pause",
             play_stop |-> "set_play_stop", toggle_mute |-> "set_toggle_mute"]

\* the setters under @debounce
Debounced ==
    {"set_target_temperature", "set_cooling_threshold", "set_heating_threshold"}

\* The values a controller may write to a characteristic.
ControllerValues(k, cf, char) ==
    CASE k = "Lock" -> {0, 1, 2, 3}
      [] k = "Thermostat" /\ char = "char_target_heat_cool" ->
            DOMAIN hc_homekit_to_hass(cf.hc_modes) \cap {2, 3}
      [] k = "Thermostat" /\ char = "char_target_temp" -> {225, 243}
      [] k = "Thermostat" /\ char = "char_cooling_thresh_temp" -> {245}
      [] k = "Thermostat" /\ char = "char_heating_thresh_temp" -> {180}
      [] k = "WaterHeater" /\ char = "char_target_heat_cool" -> {0, 1}
      [] k = "WaterHeater" /\ char = "char_target_temp" -> {450, 552}
      [] k = "MediaPlayer" -> BOOLEAN

NoOp == [op |-> "init", func |-> "", st |-> None, written |-> {},
         suppressed |-> {}, raised |-> FALSE, echo |-> {}, repeat |-> FALSE,
         changed |-> {}]

AccInit ==
    /\ kind \in Kinds
    /\ conf \in Confs(kind)
    /\ chars = InitChars(kind, conf)
    /\ flags = InitFlags(kind)
    /\ debounce = <<>>
    /\ timers = {}
    /\ now = 0
    /\ executor_jobs = <<>>
    /\ loop_jobs = <<>>
    /\ hub_calls = <<>>
    /\ writes = <<>>
    /\ updates = 0
    /\ forwarded = {}
    /\ last_op = NoOp

(***************************************************************************)
(* Accessories: the setters, the debounce decorator and the handlers.      *)
(***************************************************************************)
\* self.call_service(domain, service, service_data), marked with the flag
\* the setter raised and the write it answers
Call(domain, service, data, flag, id) ==
    [domain |-> domain, service |-> service, data |-> data, flag |-> flag, id |-> id]

Setting(c, f, calls, written, raised) ==
    [chars |-> c, flags |-> f, calls |-> calls, written |-> written, raised |-> raised]

\* Lock.set_state without the code of the configuration
set_state_no_code(value, id, c, f) ==
    LET f1 == [f EXCEPT !.flag_state = TRUE]
        hass_value == IF value \in DOMAIN HOMEKIT_TO_HASS
                      THEN HOMEKIT_TO_HASS[value] ELSE "None"
    IN  IF hass_value \notin DOMAIN STATE_TO_SERVICE
        THEN Setting(c, f1, <<>>, {}, TRUE)
        ELSE Setting(c, f1,
                     <<Call("lock", STATE_TO_SERVICE[hass_value],
                            [entity_id |-> conf.entity_id], "flag_state", id)>>,
                     {}, FALSE)

\* Lock.set_state
set_state(value, id, c, f) ==
    LET f1 == [f EXCEPT !.flag_state = TRUE]
        hass_value == IF value \in DOMAIN HOMEKIT_TO_HASS
                      THEN HOMEKIT_TO_HASS[value] ELSE "None"
    IN  IF hass_value \notin DOMAIN STATE_TO_SERVICE
        THEN Setting(c, f1, <<>>, {}, TRUE)
        ELSE Setting(c, f1,
                     <<Call("lock", STATE_TO_SERVICE[hass_value],
                            IF conf.code # ""
                            THEN [entity_id |-> conf.entity_id, code |-> conf.code]
                            ELSE [entity_id |-> conf.entity_id],
                            "flag_state", id)>>,
                     {}, FALSE)

\* Thermostat.set_heat_cool
Thermostat_set_heat_cool(value, id, c, f) ==
    LET f1 == [f EXCEPT !.flag_heat_cool = TRUE]
        table == hc_homekit_to_hass(conf.hc_modes)
    IN  IF value \notin DOMAIN table THEN Setting(c, f1, <<>>, {}, TRUE)
        ELSE Setting(c, f1,
                     <<Call("climate", "set_hvac_mode",
                            [entity_id |-> conf.entity_id, hvac_mode |-> table[value]],
                            "flag_heat_cool", id)>>,
                     {}, FALSE)

\* Thermostat.set_cooling_threshold with the written value for both bounds
set_cooling_threshold_echo(value, id, c, f) ==
    Setting(c, [f EXCEPT !.flag_coolingthresh = TRUE],
            <<Call("climate", "set_temperature",
                   [entity_id |-> conf.entity_id,
                    target_temp_high |-> temperature_to_states(value, conf.unit),
                    target_temp_low |-> temperature_to_states(value, conf.unit)],
                   "flag_coolingthresh", id)>>,
            {}, FALSE)

\* Thermostat.set_cooling_threshold, the function under the decorator
set_cooling_threshold(value, id, c, f) ==
    Setting(c, [f EXCEPT !.flag_coolingthresh = TRUE],
            <<Call("climate", "set_temperature",
                   [entity_id |-> conf.entity_id,
                    target_temp_high |-> temperature_to_states(value, conf.unit),
                    target_temp_low |->
                        temperature_to_states(c.char_heating_thresh_temp, conf.unit)],
                   "flag_coolingthresh", id)>>,
            {}, FALSE)

\* Thermostat.set_heating_threshold, the function under the decorator
set_heating_threshold(value, id, c, f) ==
    Setting(c, [f EXCEPT !.flag_heatingthresh = TRUE],
            <<Call("climate", "set_temperature",
                   [entity_id |-> conf.entity_id,
                    target_temp_high |->
                        temperature_to_states(c.char_cooling_thresh_temp, conf.unit),
                    target_temp_low |-> temperature_to_states(value, conf.unit)],
                   "flag_heatingthresh", id)>>,
            {}, FALSE)

\* Thermostat.set_target_temperature and WaterHeater.set_target_temperature,
\* the function under the decorator
set_target_temperature(value, id, c, f) ==
    Setting(c, [f EXCEPT !.flag_temperature = TRUE],
            <<Call(IF kind = "WaterHeater" THEN "water_heater" ELSE "climate",
                   "set_temperature",
                   [entity_id |-> conf.entity_id,
                    temperature |-> temperature_to_states(value, conf.unit)],
                   "flag_temperature", id)>>,
            {}, FALSE)

\* WaterHeater.set_heat_cool without the set_value of Heat
WaterHeater_set_heat_cool_kept(value, id, c, f) ==
    LET f1 == [f EXCEPT !.flag_heat_cool = TRUE]
    IN  IF value \notin DOMAIN HC_HOMEKIT_TO_HASS THEN Setting(c, f1, <<>>, {}, TRUE)
        ELSE Setting(c, f1, <<>>, {}, FALSE)

\* WaterHeater.set_heat_cool
WaterHeater_set_heat_cool(value, id, c, f) ==
    LET f1 == [f EXCEPT !.flag_heat_cool = TRUE]
    IN  IF value \notin DOMAIN HC_HOMEKIT_TO_HASS THEN Setting(c, f1, <<>>, {}, TRUE)
        ELSE IF HC_HOMEKIT_TO_HASS[value] # "heat"
        THEN Setting([c EXCEPT !.char_target_heat_cool = 1], f1, <<>>,
                     {"char_target_heat_cool"}, FALSE)
        ELSE Setting(c, f1, <<>>, {}, FALSE)

\* MediaPlayer.set_on_off, set_play_pause, set_play_stop, set_toggle_mute
MediaPlayer_set(func, value, id, c, f) ==
    LET service ==
            CASE func = "set_on_off" -> IF value THEN "turn_on" ELSE "turn_off"
              [] func = "set_play_pause" ->
                    IF value THEN "media_play" ELSE "media_pause"
              [] func = "set_play_stop" -> IF value THEN "media_play" ELSE "media_stop"
              [] func = "set_toggle_mute" -> "volume_mute"
    IN  Setting(c, f,
                <<Call("media_player", service,
                       IF func = "set_toggle_mute"
                       THEN [entity_id |-> conf.entity_id, is_volume_muted |-> value]
                       ELSE [entity_id |-> conf.entity_id],
                       "", id)>>,
                {}, FALSE)

\* func(self, value) of the accessory class
RunSetter(func, value, id, c, f) ==
    CASE func = "set_state" -> set_state(value, id, c, f)
      [] func = "set_heat_cool" /\ kind = "Thermostat" ->
            Thermostat_set_heat_cool(value, id, c, f)
      [] func = "set_heat_cool" /\ kind = "WaterHeater" ->
            WaterHeater_set_heat_cool(value, id, c, f)
      [] func = "set_cooling_threshold" -> set_cooling_threshold(value, id, c, f)
      [] func = "set_heating_threshold" -> set_heating_threshold(value, id, c, f)
      [] func = "set_target_temperature" -> set_target_temperature(value, id, c, f)
      [] OTHER -> MediaPlayer_set(func, value, id, c, f)

\* dict.pop(key, None) and dict[key] = entry
Pop(d, key) == [x \in DOMAIN d \ {key} |-> d[x]]
Put(d, key, entry) == [x \in DOMAIN d \cup {key} |-> IF x = key THEN entry ELSE d[x]]

\* debounce.wrapper: the pending entry of the setter goes and its listener is
\* removed; a new listener is set DEBOUNCE_TIMEOUT from now and kept, with
\* the arguments, as the entry.
wrapper_no_cancel(func, value, id) ==
    LET timer == [func |-> func, deadline |-> now + DEBOUNCE_TIMEOUT, id |-> id]
    IN  /\ timers' = timers \cup {timer}
        /\ debounce' = Put(debounce, func, [timer |-> timer, value |-> value, id |-> id])

wrapper(func, value, id) ==
    LET timer == [func |-> func, deadline |-> now + DEBOUNCE_TIMEOUT, id |-> id]
        kept == IF func \in DOMAIN debounce
                THEN timers \ {debounce[func].timer}
                ELSE timers
    IN  /\ timers' = kept \cup {timer}
        /\ debounce' = Put(debounce, func, [timer |-> timer, value |-> value, id |-> id])

\* A controller writes a characteristic: the protocol library stores the
\* value and calls the setter_callback, which is the setter or, for a
\* debounced setter, the wrapper.
ControllerWrite(char, value) ==
    /\ Len(writes) < MaxWrites
    /\ now + DEBOUNCE_TIMEOUT <= MaxTime
    /\ char \in DOMAIN chars \cap DOMAIN SetterOf(kind)
    /\ LET func == SetterOf(kind)[char]
           id == Len(writes) + 1
           c1 == [chars EXCEPT ![char] = value]
           r == RunSetter(func, value, id, c1, flags)
       IN  /\ writes' = Append(writes, [func |-> func, t |-> now, value |-> value])
           /\ IF func \in Debounced
              THEN /\ wrapper(func, value, id)
                   /\ chars' = c1
                   /\ UNCHANGED <<flags, loop_jobs>>
                   /\ last_op' = [NoOp EXCEPT !.op = "wrapper", !.func = func]
              ELSE /\ chars' = r.chars
                   /\ flags' = r.flags
                   /\ loop_jobs' = loop_jobs \o r.calls
                   /\ last_op' = [NoOp EXCEPT !.op = "setter", !.func = func,
                                              !.written = r.written,
                                              !.raised = r.raised]
                   /\ UNCHANGED <<debounce, timers>>
    /\ UNCHANGED <<kind, conf, now, executor_jobs, hub_calls, updates, forwarded>>
    /\ UNCHANGED <<aidVars, bridgeVars, ctorVars, keyVars, hostVars>>

\* debounce.call_later_listener, when the host finds the point in time of a
\* listener reached: the entry of the setter, if any, goes to the executor.
\* call_later_listener that reads the entry and leaves it in self.debounce
call_later_listener_keeps_entry(timer) ==
    /\ timer \in timers
    /\ now >= timer.deadline
    /\ timers' = timers \ {timer}
    /\ debounce' = debounce
    /\ executor_jobs' =
           IF timer.func \in DOMAIN debounce
           THEN Append(executor_jobs,
                       [fn |-> timer.func, value |-> debounce[timer.func].value,
                        id |-> debounce[timer.func].id])
           ELSE executor_jobs
    /\ UNCHANGED <<kind, conf, chars, flags, now, loop_jobs, hub_calls, writes,
                   updates, forwarded, last_op>>
    /\ UNCHANGED <<aidVars, bridgeVars, ctorVars, keyVars, hostVars>>

call_later_listener(timer) ==
    /\ timer \in timers
    /\ now >= timer.deadline
    /\ timers' = timers \ {timer}
    /\ debounce' = Pop(debounce, timer.func)
    /\ executor_jobs' =
           IF timer.func \in DOMAIN debounce
           THEN Append(executor_jobs,
                       [fn |-> timer.func, value |-> debounce[timer.func].value,
                        id |-> debounce[timer.func].id])
           ELSE executor_jobs
    /\ UNCHANGED <<kind, conf, chars, flags, now, loop_jobs, hub_calls, writes,
                   updates, forwarded, last_op>>
    /\ UNCHANGED <<aidVars, bridgeVars, ctorVars, keyVars, hostVars>>

\* HomeAccessory.update_state_callback
update_state_callback(new_state) ==
    /\ updates < MaxUpdates
    /\ updates' = updates + 1
    /\ executor_jobs' =
           IF new_state = None THEN executor_jobs
           ELSE Append(executor_jobs, [fn |-> "update_state", st |-> new_state])
    /\ UNCHANGED <<kind, conf, chars, flags, debounce, timers, now, loop_jobs,
                   hub_calls, writes, forwarded, last_op>>
    /\ UNCHANGED <<aidVars, bridgeVars, ctorVars, keyVars, hostVars>>

Without(seq, i) == SubSeq(seq, 1, i - 1) \o SubSeq(seq, i + 1, Len(seq))

\* A thread of the executor runs a job: update_state of a state change ...
RunUpdateState(i) ==
    /\ i \in DOMAIN executor_jobs
    /\ executor_jobs[i].fn = "update_state"
    /\ LET st == executor_jobs[i].st
           r == update_state(chars, flags, st)
       IN  /\ chars' = r.chars
           /\ flags' = r.flags
           /\ forwarded' = forwarded \ Carried(st)
           /\ last_op' = [op |-> "update_state", func |-> "", st |-> st,
                          written |-> r.written, suppressed |-> r.suppressed,
                          raised |-> r.raised, echo |-> forwarded \cap Carried(st),
                          repeat |-> last_op.op = "update_state" /\ last_op.st = st,
                          changed |-> {ch \in DOMAIN chars : r.chars[ch] # chars[ch]}]
    /\ executor_jobs' = Without(executor_jobs, i)
    /\ UNCHANGED <<kind, conf, debounce, timers, now, loop_jobs, hub_calls, writes,
                   updates>>
    /\ UNCHANGED <<aidVars, bridgeVars, ctorVars, keyVars, hostVars>>

\* ... or the debounced setter the listener handed over.
RunDebouncedSetter(i) ==
    /\ i \in DOMAIN executor_jobs
    /\ executor_jobs[i].fn # "update_state"
    /\ LET job == executor_jobs[i]
           r == RunSetter(job.fn, job.value, job.id, chars, flags)
       IN  /\ chars' = r.chars
           /\ flags' = r.flags
           /\ loop_jobs' = loop_jobs \o r.calls
           /\ last_op' = [NoOp EXCEPT !.op = "setter", !.func = job.fn,
                                      !.written = r.written, !.raised = r.raised]
    /\ executor_jobs' = Without(executor_jobs, i)
    /\ UNCHANGED <<kind, conf, debounce, timers, now, hub_calls, writes, updates,
                   forwarded>>
    /\ UNCHANGED <<aidVars, bridgeVars, ctorVars, keyVars, hostVars>>

\* The loop runs the job that was given to it last.
async_call_service_latest_first ==
    /\ loop_jobs # <<>>
    /\ LET job == loop_jobs[Len(loop_jobs)]
       IN  /\ hub_calls' = Append(hub_calls,
                                  [domain |-> job.domain, service |-> job.service,
                                   data |-> job.data, id |-> job.id, t |-> now])
           /\ forwarded' = IF job.flag = "" THEN forwarded
                           ELSE forwarded \cup {job.flag}
    /\ loop_jobs' = SubSeq(loop_jobs, 1, Len(loop_jobs) - 1)
    /\ UNCHANGED <<kind, conf, chars, flags, debounce, timers, now, executor_jobs,
                   writes, updates, last_op>>
    /\ UNCHANGED <<aidVars, bridgeVars, ctorVars, keyVars, hostVars>>

\* HomeAccessory.async_call_service, the job call_service gave to the loop:
\* the hub receives the service call.
async_call_service ==
    /\ loop_jobs # <<>>
    /\ LET job == Head(loop_jobs)
       IN  /\ hub_calls' = Append(hub_calls,
                                  [domain |-> job.domain, service |-> job.service,
                                   data |-> job.data, id |-> job.id, t |-> now])
           /\ forwarded' = IF job.flag = "" THEN forwarded
                           ELSE forwarded \cup {job.flag}
    /\ loop_jobs' = Tail(loop_jobs)
    /\ UNCHANGED <<kind, conf, chars, flags, debounce, timers, now, executor_jobs,
                   writes, updates, last_op>>
    /\ UNCHANGED <<aidVars, bridgeVars, ctorVars, keyVars, hostVars>>

\* Time passes.  Only the decorator reads the clock, so that it is moved
\* only while a listener waits; the host runs a listener within the tick of
\* its point in time, before or after whatever else happens in that tick.
ClockTick ==
    /\ now < MaxTime
    /\ timers # {}
    /\ \A timer \in timers : now < timer.deadline
    /\ now' = now + 1
    /\ UNCHANGED <<kind, conf, chars, flags, debounce, timers, executor_jobs,
                   loop_jobs, hub_calls, writes, updates, forwarded, last_op>>
    /\ UNCHANGED <<aidVars, bridgeVars, ctorVars, keyVars, hostVars>>

AccNext ==
    \/ \E char \in DOMAIN chars \cap DOMAIN SetterOf(kind) :
          \E value \in ControllerValues(kind, conf, char) : ControllerWrite(char, value)
    \/ \E timer \in timers : call_later_listener(timer)
    \/ \E st \in HubStates(kind, conf) \cup {None} : update_state_callback(st)
    \/ \E i \in DOMAIN executor_jobs : RunUpdateState(i)
    \/ \E i \in DOMAIN executor_jobs : RunDebouncedSetter(i)
    \/ async_call_service
    \/ ClockTick

(***************************************************************************)
(* HomeKit: the accessory mapper and the class that fills and runs the     *)
(* bridge (__init__.py).                                                   *)
(***************************************************************************)
STATUS_READY == 0
STATUS_RUNNING == 1
STATUS_STOPPED == 2
STATUS_WAIT == 3

\* homeassistant.components.cover
SUPPORT_OPEN == 1
SUPPORT_CLOSE == 2
SUPPORT_SET_POSITION == 4

DEVICE_CLASS_TV == "tv"
DEVICE_CLASS_TEMPERATURE == "temperature"
DEVICE_CLASS_HUMIDITY == "humidity"
DEVICE_CLASS_ILLUMINANCE == "illuminance"
DEVICE_CLASS_CO == "co"
DEVICE_CLASS_CO2 == "co2"
DEVICE_CLASS_PM25 == "pm25"
TYPE_SWITCH == "switch"

SWITCH_TYPES ==
    [faucet |-> "Valve", outlet |-> "Outlet", shower |-> "Valve",
     sprinkler |-> "Valve", switch |-> "Switch", valve |-> "Valve"]

\* a_type = None
NoType == "None"
\* get_accessory returns None
NoAccessory == [entity_id |-> "", a_type |-> NoType]
\* generate_aid returns None
NoAid == -1

\* x & y and x | y on non-negative integers
RECURSIVE BitAnd(_, _)
BitAnd(x, y) ==
    IF x = 0 \/ y = 0 THEN 0
    ELSE ((x % 2) * (y % 2)) + 2 * BitAnd(x \div 2, y \div 2)

RECURSIVE BitOr(_, _)
BitOr(x, y) ==
    IF x = 0 THEN y
    ELSE IF y = 0 THEN x
    ELSE (IF x % 2 = 1 \/ y % 2 = 1 THEN 1 ELSE 0) + 2 * BitOr(x \div 2, y \div 2)

\* sub in text, on the bytes
Contains(sub, text) ==
    \E i \in 1..(Len(text) - Len(sub) + 1) : SubSeq(text, i, i + Len(sub) - 1) = sub

\* state.attributes.get(ATTR_DEVICE_CLASS) == device_class
DeviceClassIs(state, device_class) ==
    Has(state, "device_class") /\ state.attributes.device_class = device_class

\* state.attributes.get(ATTR_UNIT_OF_MEASUREMENT) in units
UnitIn(state, units) ==
    Has(state, "unit_of_measurement") /\ state.attributes.unit_of_measurement \in units

\* get_accessory, domain cover, with the rule for set-position first
cover_a_type_position_first(state) ==
    LET features == IF Has(state, "supported_features")
                    THEN state.attributes.supported_features ELSE 0
    IN  IF BitAnd(features, SUPPORT_SET_POSITION) # 0 THEN "WindowCovering"
        ELSE IF /\ DeviceClassIs(state, "garage")
                /\ BitAnd(features, BitOr(SUPPORT_OPEN, SUPPORT_CLOSE)) # 0
        THEN "GarageDoorOpener"
        ELSE IF BitAnd(features, BitOr(SUPPORT_OPEN, SUPPORT_CLOSE)) # 0
        THEN "WindowCoveringBasic"
        ELSE NoType

\* get_accessory, domain cover
cover_a_type(state) ==
    LET features == IF Has(state, "supported_features")
                    THEN state.attributes.supported_features ELSE 0
    IN  IF /\ DeviceClassIs(state, "garage")
           /\ BitAnd(features, BitOr(SUPPORT_OPEN, SUPPORT_CLOSE)) # 0
        THEN "GarageDoorOpener"
        ELSE IF BitAnd(features, SUPPORT_SET_POSITION) # 0 THEN "WindowCovering"
        ELSE IF BitAnd(features, BitOr(SUPPORT_OPEN, SUPPORT_CLOSE)) # 0
        THEN "WindowCoveringBasic"
        ELSE NoType

\* util.validate_media_player_features: every feature of the list is one
\* the entity supports
validate_media_player_features(state, feature_list) ==
    Has(state, "supported_modes") /\ feature_list \subseteq state.attributes.supported_modes

\* get_accessory, domain media_player
media_player_a_type(state, config) ==
    IF DeviceClassIs(state, DEVICE_CLASS_TV) THEN "TelevisionMediaPlayer"
    ELSE IF /\ "feature_list" \in DOMAIN config
            /\ config.feature_list # {}
            /\ validate_media_player_features(state, config.feature_list)
    THEN "MediaPlayer"
    ELSE NoType

\* get_accessory, domain sensor
sensor_a_type(state) ==
    IF \/ DeviceClassIs(state, DEVICE_CLASS_TEMPERATURE)
       \/ UnitIn(state, {TEMP_CELSIUS, TEMP_FAHRENHEIT})
    THEN "TemperatureSensor"
    ELSE IF DeviceClassIs(state, DEVICE_CLASS_HUMIDITY) /\ UnitIn(state, {"%"})
    THEN "HumiditySensor"
    ELSE IF \/ DeviceClassIs(state, DEVICE_CLASS_PM25)
            \/ Contains(Utf8(DEVICE_CLASS_PM25), Utf8(state.entity_id))
    THEN "AirQualitySensor"
    ELSE IF DeviceClassIs(state, DEVICE_CLASS_CO) THEN "CarbonMonoxideSensor"
    ELSE IF \/ DeviceClassIs(state, DEVICE_CLASS_CO2)
            \/ Contains(Utf8(DEVICE_CLASS_CO2), Utf8(state.entity_id))
    THEN "CarbonDioxideSensor"
    ELSE IF \/ DeviceClassIs(state, DEVICE_CLASS_ILLUMINANCE)
            \/ UnitIn(state, {"lm", "lx"})
    THEN "LightSensor"
    ELSE NoType

\* get_accessory, domain switch
switch_a_type(config) ==
    SWITCH_TYPES[IF "type" \in DOMAIN config THEN config.type ELSE TYPE_SWITCH]

\* get_accessory: the accessory type of the entity
a_type_of(state, config) ==
    CASE state.domain = "alarm_control_panel" -> "SecuritySystem"
      [] state.domain \in {"binary_sensor", "device_tracker", "person"} ->
            "BinarySensor"
      [] state.domain = "climate" -> "Thermostat"
      [] state.domain = "cover" -> cover_a_type(state)
      [] state.domain = "fan" -> "Fan"
      [] state.domain = "light" -> "Light"
      [] state.domain = "lock" -> "Lock"
      [] state.domain = "media_player" -> media_player_a_type(state, config)
      [] state.domain = "sensor" -> sensor_a_type(state)
      [] state.domain = "switch" -> switch_a_type(config)
      [] state.domain \in {"automation", "input_boolean", "remote", "scene",
                           "script"} -> "Switch"
      [] state.domain = "water_heater" -> "WaterHeater"
      [] OTHER -> NoType

\* get_accessory: None without an aid or an accessory type, or else the
\* object TYPES[a_type](hass, driver, name, entity_id, aid, config), which
\* is the instance-th object constructed
get_accessory(state, aid, config, instance) ==
    IF aid = NoAid \/ aid = 0 THEN NoAccessory
    ELSE IF a_type_of(state, config) = NoType THEN NoAccessory
    ELSE [entity_id |-> state.entity_id, aid |-> aid,
          a_type |-> a_type_of(state, config), config |-> config,
          instance |-> instance]

\* calls of the handlers of HomeKit in one run
MaxCalls == 3

BridgeEntityIds ==
    {"lock.bdb", "lock.cbc", "lock.x", LongIdZero, "switch.pump", "sun.sun",
     "media_player.tv", "cover.door", "sensor.air", "sensor.co2"}

Adler32Of == [e \in BridgeEntityIds |-> adler32(Utf8(e))]

\* generate_aid
generate_aid(entity_id) ==
    LET aid == Adler32Of[entity_id] IN IF aid \in {0, 1} THEN NoAid ELSE aid

\* The attributes an entity may have: each key present or not.
Attributes(key, values) == {<<>>} \cup {[k \in {key} |-> v] : v \in values}

CoverStates ==
    {[entity_id |-> "cover.door", domain |-> "cover", attributes |-> dc @@ sf] :
        dc \in Attributes("device_class", {"garage", "window"}),
        sf \in Attributes("supported_features", 0..7)}

SensorStates ==
    {[entity_id |-> e, domain |-> "sensor", attributes |-> dc @@ u] :
        e \in {"sensor.air", "sensor.co2"},
        dc \in Attributes("device_class",
                          {DEVICE_CLASS_TEMPERATURE, DEVICE_CLASS_HUMIDITY,
                           DEVICE_CLASS_ILLUMINANCE, DEVICE_CLASS_CO,
                           DEVICE_CLASS_CO2, DEVICE_CLASS_PM25}),
        u \in Attributes("unit_of_measurement",
                         {TEMP_CELSIUS, TEMP_FAHRENHEIT, "%", "lx"})}

LockState(e) == [entity_id |-> e, domain |-> "lock", attributes |-> <<>>]
PumpState == [entity_id |-> "switch.pump", domain |-> "switch", attributes |-> <<>>]
SunState == [entity_id |-> "sun.sun", domain |-> "sun", attributes |-> <<>>]
TvState ==
    [entity_id |-> "media_player.tv", domain |-> "media_player",
     attributes |-> [supported_modes |-> {"on_off", "play_pause"}]]

\* What HomeKit is constructed with and the entities the hub has: two locks
\* whose entity ids have one adler32 value and a switch, in every order; a
\* lock without a usable aid, an entity of no exposed domain, a media
\* player, a lock the filter keeps out and a switch; one cover; one sensor.
Worlds ==
    {[states |-> order,
      filter |-> {"lock.bdb", "lock.cbc", "switch.pump"},
      config |-> [e \in {"switch.pump", "lock.bdb"} |->
                     IF e = "switch.pump" THEN [type |-> "outlet"]
                     ELSE [code |-> "1234"]]] :
        order \in {o \in [1..3 -> {LockState("lock.bdb"), LockState("lock.cbc"),
                                   PumpState}] :
                      \A i, j \in 1..3 : i # j => o[i] # o[j]}}
    \cup
    {[states |-> <<LockState(LongIdZero), SunState, TvState, LockState("lock.x"),
                   PumpState>>,
      filter |-> {LongIdZero, "sun.sun", "media_player.tv", "switch.pump"},
      config |-> [e \in {"media_player.tv", "lock.x", "switch.pump", LongIdZero} |->
                     CASE e = "media_player.tv" -> [feature_list |-> {"on_off"}]
                       [] e = "switch.pump" -> [type |-> "valve"]
                       [] OTHER -> [code |-> "1234"]]]}
    \cup
    {[states |-> <<probe>>, filter |-> {probe.entity_id}, config |-> <<>>] :
        probe \in CoverStates \cup SensorStates}

\* Bridge.add_accessory of the protocol library: an aid already in the
\* bridge is refused with ValueError.
Bridge_add_accessory(accs, acc) ==
    IF acc.aid \in DOMAIN accs THEN [accessories |-> accs, raised |-> TRUE]
    ELSE [accessories |-> Put(accs, acc.aid, acc), raised |-> FALSE]

\* What a call of add_bridge_accessory did.
Added(state, passed, aid, config, acc, raised, before, after) ==
    [state |-> state, passed |-> passed, aid |-> aid, config |-> config,
     a_type |-> acc.a_type, added |-> acc # NoAccessory /\ ~raised,
     raised |-> raised, before |-> before, after |-> after]

\* HomeKit.add_bridge_accessory on b, the bridge, the configuration and the
\* count of objects as the calls before have left them
add_bridge_accessory(state, b) ==
    LET id == state.entity_id
    IN  IF id \notin entity_filter
        THEN [b EXCEPT !.adds = Append(@, Added(state, FALSE, NoAid, <<>>,
                                                NoAccessory, FALSE,
                                                b.accessories, b.accessories))]
        ELSE LET aid == generate_aid(id)
                 config == IF id \in DOMAIN b.entity_config
                           THEN b.entity_config[id] ELSE <<>>
                 acc == get_accessory(state, aid, config, b.constructed + 1)
                 put == Bridge_add_accessory(b.accessories, acc)
             IN  IF acc = NoAccessory
                 THEN [b EXCEPT !.entity_config = Pop(@, id),
                                !.adds = Append(@, Added(state, TRUE, aid, config,
                                                         acc, FALSE, b.accessories,
                                                         b.accessories))]
                 ELSE [accessories |-> put.accessories,
                       entity_config |-> Pop(b.entity_config, id),
                       constructed |-> b.constructed + 1,
                       adds |-> Append(b.adds,
                                       Added(state, TRUE, aid, config, acc,
                                             put.raised, b.accessories,
                                             put.accessories)),
                       raised |-> put.raised]

\* for state in self.hass.states.all(): self.add_bridge_accessory(state),
\* until a call raises
RECURSIVE AddAll(_, _, _)
AddAll(states, i, b) ==
    IF i > Len(states) \/ b.raised THEN b
    ELSE AddAll(states, i + 1, add_bridge_accessory(states[i], b))

NoBridgeOp ==
    [op |-> "init", status |-> STATUS_READY, accessories |-> <<>>,
     entity_ids |-> <<>>, raised |-> FALSE]

\* A handler runs: what it is and what it finds.
Handler(op, entity_ids, raised) ==
    /\ handler_calls < MaxCalls
    /\ handler_calls' = handler_calls + 1
    /\ bridge_op' = [op |-> op, status |-> status, accessories |-> accessories,
                     entity_ids |-> entity_ids, raised |-> raised]

StartResult ==
    AddAll(hass_states, 1,
           [accessories |-> accessories, entity_config |-> entity_config,
            constructed |-> constructed, adds |-> adds, raised |-> FALSE])

\* HomeKit.start without the test of the status
HomeKit_start_unguarded ==
    LET r == StartResult
    IN  /\ accessories' = r.accessories
        /\ entity_config' = r.entity_config
        /\ constructed' = r.constructed
        /\ adds' = r.adds
        /\ IF r.raised
           THEN /\ status' = STATUS_WAIT
                /\ UNCHANGED driver
           ELSE /\ status' = STATUS_RUNNING
                /\ driver' = [driver EXCEPT !.bridge = TRUE, !.starts = @ + 1]

\* HomeKit.start: the accessories of all states are added, the bridge is
\* given to the driver and the start of the driver is scheduled; a
\* ValueError of the bridge ends it where it is.
HomeKit_start ==
    IF status # STATUS_READY
    THEN UNCHANGED <<status, accessories, entity_config, driver, constructed, adds>>
    ELSE LET r == StartResult
         IN  /\ accessories' = r.accessories
             /\ entity_config' = r.entity_config
             /\ constructed' = r.constructed
             /\ adds' = r.adds
             /\ IF r.raised
                THEN /\ status' = STATUS_WAIT
                     /\ UNCHANGED driver
                ELSE /\ status' = STATUS_RUNNING
                     /\ driver' = [driver EXCEPT !.bridge = TRUE, !.starts = @ + 1]

\* homekit.start as the listener of EVENT_HOMEASSISTANT_START
start ==
    /\ Handler("start", <<>>, status = STATUS_READY /\ StartResult.raised)
    /\ HomeKit_start
    /\ UNCHANGED <<entity_filter, hass_states, configured>>
    /\ UNCHANGED <<aidVars, accVars, ctorVars, keyVars, hostVars>>

\* handle_homekit_service_start
handle_homekit_service_start ==
    /\ Handler("service_start", <<>>, status = STATUS_READY /\ StartResult.raised)
    /\ IF status # STATUS_READY
       THEN UNCHANGED <<status, accessories, entity_config, driver, constructed, adds>>
       ELSE HomeKit_start
    /\ UNCHANGED <<entity_filter, hass_states, configured>>
    /\ UNCHANGED <<aidVars, accVars, ctorVars, keyVars, hostVars>>

\* HomeKit.stop without the test of the status
stop_unguarded ==
    /\ Handler("stop", <<>>, FALSE)
    /\ status' = STATUS_STOPPED
    /\ driver' = [driver EXCEPT !.stops = @ + 1]
    /\ UNCHANGED <<accessories, entity_config, constructed, adds, entity_filter,
                   hass_states, configured>>
    /\ UNCHANGED <<aidVars, accVars, ctorVars, keyVars, hostVars>>

\* HomeKit.stop, the listener of EVENT_HOMEASSISTANT_STOP
stop ==
    /\ Handler("stop", <<>>, FALSE)
    /\ IF status # STATUS_RUNNING
       THEN UNCHANGED <<status, driver>>
       ELSE /\ status' = STATUS_STOPPED
            /\ driver' = [driver EXCEPT !.stops = @ + 1]
    /\ UNCHANGED <<accessories, entity_config, constructed, adds, entity_filter,
                   hass_states, configured>>
    /\ UNCHANGED <<aidVars, accVars, ctorVars, keyVars, hostVars>>

\* HomeKit.remove_bridge_accessory: the accessory and the bridge without it
remove_bridge_accessory(aid, accs) ==
    IF aid \in DOMAIN accs THEN [acc |-> accs[aid], accessories |-> Pop(accs, aid)]
    ELSE [acc |-> NoAccessory, accessories |-> accs]

\* reset_accessories, the first loop: the accessories of the entity ids
\* that are in the bridge are removed and kept
RECURSIVE RemoveAll(_, _, _, _)
RemoveAll(entity_ids, i, accs, removed) ==
    IF i > Len(entity_ids) THEN [accessories |-> accs, removed |-> removed]
    ELSE LET aid == generate_aid(entity_ids[i])
         IN  IF aid \notin DOMAIN accs
             THEN RemoveAll(entity_ids, i + 1, accs, removed)
             ELSE LET r == remove_bridge_accessory(aid, accs)
                  IN  RemoveAll(entity_ids, i + 1, r.accessories,
                                Append(removed, r.acc))

\* reset_accessories, the second loop: the kept accessories are added again
RECURSIVE AddRemoved(_, _, _)
AddRemoved(removed, i, accs) ==
    IF i > Len(removed) THEN accs
    ELSE AddRemoved(removed, i + 1, Bridge_add_accessory(accs, removed[i]).accessories)

\* reset_accessories without the second loop
reset_accessories_not_added(entity_ids) ==
    LET r == RemoveAll(entity_ids, 1, accessories, <<>>)
    IN  /\ accessories' = r.accessories
        /\ driver' = [driver EXCEPT !.config_changes = @ + 2]

\* What reset_accessories does to the bridge and the driver, in order: the
\* removals of the first loop, config_changed, the additions of the second
\* loop, config_changed.
reset_log(entity_ids) ==
    LET removed == RemoveAll(entity_ids, 1, accessories, <<>>).removed
    IN  [i \in DOMAIN removed |-> [event |-> "remove", aid |-> removed[i].aid]]
        \o <<[event |-> "config_changed", aid |-> NoAid]>>
        \o [i \in DOMAIN removed |-> [event |-> "add", aid |-> removed[i].aid]]
        \o <<[event |-> "config_changed", aid |-> NoAid]>>

\* HomeKit.reset_accessories
reset_accessories(entity_ids) ==
    LET r == RemoveAll(entity_ids, 1, accessories, <<>>)
    IN  /\ accessories' = AddRemoved(r.removed, 1, r.accessories)
        /\ driver' = [driver EXCEPT !.config_changes = @ + 2]

\* handle_homekit_reset_accessory
handle_homekit_reset_accessory(entity_ids) ==
    /\ Handler("reset", entity_ids, FALSE)
    /\ IF status # STATUS_RUNNING
       THEN UNCHANGED <<accessories, driver>>
       ELSE reset_accessories(entity_ids)
    /\ UNCHANGED <<status, entity_config, constructed, adds, entity_filter,
                   hass_states, configured>>
    /\ UNCHANGED <<aidVars, accVars, ctorVars, keyVars, hostVars>>

\* The entity ids a reset may name: those of the hub and one it has not.
ResetIds == {hass_states[i].entity_id : i \in DOMAIN hass_states} \cup {"lock.x"}

ResetLists == {<<a>> : a \in ResetIds} \cup {<<a, b>> : a, b \in ResetIds}

\* HomeKit.__init__ and setup
BridgeInit ==
    \E w \in Worlds :
        /\ hass_states = w.states
        /\ entity_filter = w.filter
        /\ entity_config = w.config
        /\ configured = w.config
        /\ status = STATUS_READY
        /\ accessories = <<>>
        /\ driver = [bridge |-> FALSE, starts |-> 0, stops |-> 0, config_changes |-> 0]
        /\ constructed = 0
        /\ adds = <<>>
        /\ bridge_op = NoBridgeOp
        /\ handler_calls = 0

BridgeNext ==
    \/ start
    \/ handle_homekit_service_start
    \/ stop
    \/ \E entity_ids \in ResetLists : handle_homekit_reset_accessory(entity_ids)

(***************************************************************************)
(* The temperature range of Thermostat and WaterHeater.  Temperatures are  *)
(* in tenths of a degree, as everywhere in this module.                    *)
(***************************************************************************)
\* homeassistant.components.climate.const
DEFAULT_MIN_TEMP == 70
DEFAULT_MAX_TEMP == 350

\* const.py
DEFAULT_MIN_TEMP_WATER_HEATER == 400
DEFAULT_MAX_TEMP_WATER_HEATER == 600

SUPPORT_TARGET_TEMPERATURE_RANGE == 2

\* round(x * 2) / 2
RoundHalf(t) == 5 * RoundNearest(t, 5)

\* attributes.get(name), then "temperature_to_homekit(x, unit) if x else
\* default", then round(x * 2) / 2: the test is the truth value of x, which
\* is false for None and for 0
TemperatureBound(attributes, name, unit, default) ==
    LET supplied == name \in DOMAIN attributes
        truthy == supplied /\ attributes[name] # 0
    IN  RoundHalf(IF truthy THEN temperature_to_homekit(attributes[name], unit)
                  ELSE default)

\* Thermostat.get_temperature_range
Thermostat_get_temperature_range(attributes, unit) ==
    [min_temp |-> TemperatureBound(attributes, "min_temp", unit, DEFAULT_MIN_TEMP),
     max_temp |-> TemperatureBound(attributes, "max_temp", unit, DEFAULT_MAX_TEMP)]

\* WaterHeater.get_temperature_range
WaterHeater_get_temperature_range(attributes, unit) ==
    [min_temp |-> TemperatureBound(attributes, "min_temp", unit,
                                   DEFAULT_MIN_TEMP_WATER_HEATER),
     max_temp |-> TemperatureBound(attributes, "max_temp", unit,
                                   DEFAULT_MAX_TEMP_WATER_HEATER)]

\* PROP_MIN_VALUE and PROP_MAX_VALUE of a characteristic
Bounds(range) == [minValue |-> range.min_temp, maxValue |-> range.max_temp]

\* Thermostat.__init__: the target temperature, and the two thresholds if
\* the entity supports a temperature range
Thermostat_init ==
    /\ ctor_kind = "Thermostat"
    /\ properties = <<>>
    /\ LET range == Thermostat_get_temperature_range(ctor_attributes, ctor_unit)
           features == IF "supported_features" \in DOMAIN ctor_attributes
                       THEN ctor_attributes.supported_features ELSE 0
       IN  properties' =
               [char_target_temp |-> Bounds(range)]
               @@ IF BitAnd(features, SUPPORT_TARGET_TEMPERATURE_RANGE) # 0
                  THEN [char_cooling_thresh_temp |-> Bounds(range),
                        char_heating_thresh_temp |-> Bounds(range)]
                  ELSE <<>>
    /\ UNCHANGED <<ctor_kind, ctor_unit, ctor_attributes>>
    /\ UNCHANGED <<aidVars, accVars, bridgeVars, keyVars, hostVars>>

\* WaterHeater.__init__
WaterHeater_init ==
    /\ ctor_kind = "WaterHeater"
    /\ properties = <<>>
    /\ properties' =
           [char_target_temp |->
                Bounds(WaterHeater_get_temperature_range(ctor_attributes, ctor_unit))]
    /\ UNCHANGED <<ctor_kind, ctor_unit, ctor_attributes>>
    /\ UNCHANGED <<aidVars, accVars, bridgeVars, keyVars, hostVars>>

\* What an entity may report as min_temp and max_temp, in the unit of the hub
\* (tenths of a degree): nothing, zero, and values on and off the half degree.
ReportedTemps == {0, 45, 73, 300, 455, -178}

Reported(name, values) == {<<>>} \cup {[x \in {name} |-> v] : v \in values}

CtorAttributes(k) ==
    {a @@ b @@ c : a \in Reported("min_temp", ReportedTemps),
                   b \in Reported("max_temp", ReportedTemps),
                   c \in IF k = "Thermostat"
                         THEN Reported("supported_features",
                                       {SUPPORT_TARGET_TEMPERATURE_RANGE})
                         ELSE {<<>>}}

\* Before the constructor runs: the entity and the unit of the hub.
CtorInit ==
    /\ ctor_kind \in {"Thermostat", "WaterHeater"}
    /\ ctor_unit \in {TEMP_CELSIUS, TEMP_FAHRENHEIT}
    /\ ctor_attributes \in CtorAttributes(ctor_kind)
    /\ properties = <<>>

CtorNext ==
    \/ Thermostat_init
    \/ WaterHeater_init

\* No thermostat or water heater is constructed.
CtorIdle ==
    /\ ctor_kind = ""
    /\ ctor_unit = TEMP_CELSIUS
    /\ ctor_attributes = <<>>
    /\ properties = <<>>

(***************************************************************************)
(* The debounce decorator with more than one accessory: every accessory    *)
(* has its own self.debounce, and the host holds the listeners of all.     *)
(***************************************************************************)
\* The accessories and the setters under @debounce of their classes.
DebouncedSetters ==
    [climate_hall |-> {"set_target_temperature", "set_cooling_threshold",
                       "set_heating_threshold"},
     water_heater_tank |-> {"set_target_temperature"}]

Accessories == DOMAIN DebouncedSetters

\* the arguments a controller may write
SetterValues == {225, 243}

\* self.debounce is keyed by func.__name__
\* one key for every setter of the accessory
DebounceKey_one_per_accessory(func) == "set"

DebounceKey(func) == func

\* debounce.wrapper of accessory self
debounce_wrapper(self, func, value) ==
    LET key == DebounceKey(func)
        id == Len(setter_writes) + 1
        listener == [self |-> self, func |-> func,
                     deadline |-> utcnow + DEBOUNCE_TIMEOUT, id |-> id]
        kept == IF key \in DOMAIN self_debounce[self]
                THEN listeners \ {self_debounce[self][key].listener}
                ELSE listeners
    IN  /\ Len(setter_writes) < MaxWrites
        /\ utcnow + DEBOUNCE_TIMEOUT <= MaxTime
        /\ setter_writes' = Append(setter_writes,
                                   [self |-> self, func |-> func, value |-> value,
                                    t |-> utcnow])
        /\ listeners' = kept \cup {listener}
        /\ self_debounce' =
               [self_debounce EXCEPT
                   ![self] = Put(@, key, [listener |-> listener, func |-> func,
                                          value |-> value, id |-> id])]
        /\ UNCHANGED <<utcnow, setter_jobs, setter_runs>>
        /\ UNCHANGED <<aidVars, accVars, bridgeVars, ctorVars, hostVars>>

\* debounce.call_later_listener of the accessory and the setter the listener
\* was made for, when its point in time has come
debounce_call_later_listener(listener) ==
    LET self == listener.self
        key == DebounceKey(listener.func)
    IN  /\ listener \in listeners
        /\ utcnow >= listener.deadline
        /\ listeners' = listeners \ {listener}
        /\ self_debounce' = [self_debounce EXCEPT ![self] = Pop(@, key)]
        /\ setter_jobs' =
               IF key \in DOMAIN self_debounce[self]
               THEN Append(setter_jobs,
                           [self |-> self, func |-> listener.func,
                            value |-> self_debounce[self][key].value,
                            id |-> self_debounce[self][key].id])
               ELSE setter_jobs
        /\ UNCHANGED <<utcnow, setter_writes, setter_runs>>
        /\ UNCHANGED <<aidVars, accVars, bridgeVars, ctorVars, hostVars>>

\* A thread of the executor runs func(self, *args); the setter makes its
\* call of the hub for the entity of self.
executor_job(i) ==
    /\ i \in DOMAIN setter_jobs
    /\ setter_runs' = Append(setter_runs, setter_jobs[i] @@ [t |-> utcnow])
    /\ setter_jobs' = Without(setter_jobs, i)
    /\ UNCHANGED <<self_debounce, listeners, utcnow, setter_writes>>
    /\ UNCHANGED <<aidVars, accVars, bridgeVars, ctorVars, hostVars>>

\* Time passes while a listener waits.
UtcTick ==
    /\ utcnow < MaxTime
    /\ listeners # {}
    /\ \A listener \in listeners : utcnow < listener.deadline
    /\ utcnow' = utcnow + 1
    /\ UNCHANGED <<self_debounce, listeners, setter_writes, setter_jobs, setter_runs>>
    /\ UNCHANGED <<aidVars, accVars, bridgeVars, ctorVars, hostVars>>

\* HomeAccessory.__init__ of each accessory: self.debounce = {}
KeyInit ==
    /\ self_debounce = [a \in Accessories |-> <<>>]
    /\ listeners = {}
    /\ utcnow = 0
    /\ setter_writes = <<>>
    /\ setter_jobs = <<>>
    /\ setter_runs = <<>>

KeyNext ==
    \/ \E self \in Accessories :
          \E func \in DebouncedSetters[self], value \in SetterValues :
              debounce_wrapper(self, func, value)
    \/ \E listener \in listeners : debounce_call_later_listener(listener)
    \/ \E i \in DOMAIN setter_jobs : executor_job(i)
    \/ UtcTick

\* No accessory with a debounced setter.
KeyIdle ==
    /\ self_debounce = <<>>
    /\ listeners = {}
    /\ utcnow = 0
    /\ setter_writes = <<>>
    /\ setter_jobs = <<>>
    /\ setter_runs = <<>>

(***************************************************************************)
(* HomeKit.start and HomeKit.stop as the host runs them: each in a thread  *)
(* of the executor, while the event loop runs the jobs it was given, the   *)
(* driver's start and stop, run_handler and the state-change listeners.    *)
(***************************************************************************)
Job(name, instance, version) == [job |-> name, instance |-> instance, version |-> version]

\* The entity of the instance-th accessory object.
EntityOf(instance) ==
    LET aid == CHOOSE a \in DOMAIN accessories : accessories[a].instance = instance
    IN  accessories[aid].entity_id

Instances == {accessories[a].instance : a \in DOMAIN accessories}

\* HomeKit.start up to "self.status = STATUS_WAIT"
HomeKit_start_enters ==
    /\ start_pc = "idle"
    /\ Handler("start", <<>>, FALSE)
    /\ IF status # STATUS_READY
       THEN /\ start_pc' = "returned"
            /\ UNCHANGED status
       ELSE /\ start_pc' = "adding"
            /\ status' = STATUS_WAIT
    /\ UNCHANGED <<accessories, entity_config, driver, constructed, adds,
                   entity_filter, hass_states, configured>>
    /\ UNCHANGED <<loop, driver_state, tracked, versions, delivered>>
    /\ UNCHANGED <<aidVars, accVars, ctorVars, keyVars>>

\* HomeKit.start from the loop over the states to its end: the accessories
\* are constructed and added, the bridge is given to the driver, the start
\* of the driver is given to the loop and the status becomes RUNNING
HomeKit_start_completes ==
    /\ start_pc = "adding"
    /\ start_pc' = "returned"
    /\ LET r == StartResult
       IN  /\ accessories' = r.accessories
           /\ entity_config' = r.entity_config
           /\ constructed' = r.constructed
           /\ adds' = r.adds
           /\ IF r.raised
              THEN UNCHANGED <<status, driver, loop>>
              ELSE /\ status' = STATUS_RUNNING
                   /\ driver' = [driver EXCEPT !.bridge = TRUE, !.starts = @ + 1]
                   /\ loop' = Append(loop, Job("driver.start", 0, 0))
    /\ UNCHANGED <<entity_filter, hass_states, configured, bridge_op, handler_calls>>
    /\ UNCHANGED <<driver_state, tracked, versions, delivered>>
    /\ UNCHANGED <<aidVars, accVars, ctorVars, keyVars>>

\* HomeKit.stop in its thread
HomeKit_stop ==
    /\ Handler("stop", <<>>, FALSE)
    /\ IF status # STATUS_RUNNING
       THEN UNCHANGED <<status, driver, loop>>
       ELSE /\ status' = STATUS_STOPPED
            /\ driver' = [driver EXCEPT !.stops = @ + 1]
            /\ loop' = Append(loop, Job("driver.stop", 0, 0))
    /\ UNCHANGED <<accessories, entity_config, constructed, adds, entity_filter,
                   hass_states, configured>>
    /\ UNCHANGED <<start_pc, driver_state, tracked, versions, delivered>>
    /\ UNCHANGED <<aidVars, accVars, ctorVars, keyVars>>

\* The accessories of the bridge in the order of their construction.
RECURSIVE RunJobs(_, _)
RunJobs(instances, i) ==
    IF i > constructed THEN <<>>
    ELSE (IF i \in instances THEN <<Job("run_handler", i, 0)>> ELSE <<>>)
         \o RunJobs(instances, i + 1)

\* The loop runs driver.start: the driver calls run of the accessories of
\* the bridge, and HomeAccessory.run gives run_handler to the loop.
driver_start ==
    /\ loop # <<>>
    /\ Head(loop).job = "driver.start"
    /\ driver_state' = "running"
    /\ loop' = Tail(loop) \o RunJobs(Instances, 1)
    /\ UNCHANGED <<start_pc, tracked, versions, delivered>>
    /\ UNCHANGED <<aidVars, accVars, bridgeVars, ctorVars, keyVars>>

\* The loop runs driver.stop.
driver_stop ==
    /\ loop # <<>>
    /\ Head(loop).job = "driver.stop"
    /\ driver_state' = "stopped"
    /\ loop' = Tail(loop)
    /\ UNCHANGED <<start_pc, tracked, versions, delivered>>
    /\ UNCHANGED <<aidVars, accVars, bridgeVars, ctorVars, keyVars>>

\* run_handler that subscribes and pushes nothing
run_handler_subscribes_only ==
    /\ loop # <<>>
    /\ Head(loop).job = "run_handler"
    /\ tracked' = tracked \cup {Head(loop).instance}
    /\ loop' = Tail(loop)
    /\ UNCHANGED <<start_pc, driver_state, versions, delivered>>
    /\ UNCHANGED <<aidVars, accVars, bridgeVars, ctorVars, keyVars>>

\* HomeAccessory.run_handler: the state of the entity is read and given to
\* update_state_callback through the loop, and the accessory subscribes to
\* the state changes of its entity
run_handler ==
    /\ loop # <<>>
    /\ Head(loop).job = "run_handler"
    /\ LET instance == Head(loop).instance
           state == versions[EntityOf(instance)]
       IN  /\ loop' = Append(Tail(loop), Job("update_state_callback", instance, state))
           /\ tracked' = tracked \cup {instance}
    /\ UNCHANGED <<start_pc, driver_state, versions, delivered>>
    /\ UNCHANGED <<aidVars, accVars, bridgeVars, ctorVars, keyVars>>

\* The loop calls update_state_callback with the state it was queued with.
state_delivered ==
    /\ loop # <<>>
    /\ Head(loop).job = "update_state_callback"
    /\ delivered' = [delivered EXCEPT ![Head(loop).instance] = @ \cup {Head(loop).version}]
    /\ loop' = Tail(loop)
    /\ UNCHANGED <<start_pc, driver_state, tracked, versions>>
    /\ UNCHANGED <<aidVars, accVars, bridgeVars, ctorVars, keyVars>>

\* The listeners of a state change of the entity, in the order of the objects.
RECURSIVE ListenerJobs(_, _, _)
ListenerJobs(entity_id, version, i) ==
    IF i > constructed THEN <<>>
    ELSE (IF i \in tracked /\ EntityOf(i) = entity_id
          THEN <<Job("update_state_callback", i, version)>> ELSE <<>>)
         \o ListenerJobs(entity_id, version, i + 1)

\* The hub changes the state of an entity: the loop is given the listeners.
state_changed(entity_id) ==
    /\ versions[entity_id] < MaxUpdates
    /\ \A e \in DOMAIN versions : e # entity_id => versions[e] = 0
    /\ versions' = [versions EXCEPT ![entity_id] = @ + 1]
    /\ loop' = loop \o ListenerJobs(entity_id, versions[entity_id] + 1, 1)
    /\ UNCHANGED <<start_pc, driver_state, tracked, delivered>>
    /\ UNCHANGED <<aidVars, accVars, bridgeVars, ctorVars, keyVars>>

\* setup has run: nothing is started, the loop has nothing to do.
HostInit ==
    /\ BridgeInit
    /\ start_pc = "idle"
    /\ loop = <<>>
    /\ driver_state = "new"
    /\ tracked = {}
    /\ versions = [e \in {hass_states[i].entity_id : i \in DOMAIN hass_states} |-> 0]
    /\ delivered = [i \in 1..Len(hass_states) |-> {}]

HostNext ==
    \/ HomeKit_start_enters
    \/ HomeKit_start_completes
    \/ HomeKit_stop
    \/ driver_start
    \/ driver_stop
    \/ run_handler
    \/ state_delivered
    \/ \E entity_id \in DOMAIN versions : state_changed(entity_id)

\* No thread of the host is modelled.
HostIdle ==
    /\ start_pc = "idle"
    /\ loop = <<>>
    /\ driver_state = "new"
    /\ tracked = {}
    /\ versions = <<>>
    /\ delivered = <<>>

\* No HomeKit object has been made.
BridgeIdle ==
    /\ hass_states = <<>>
    /\ entity_filter = {}
    /\ entity_config = <<>>
    /\ configured = <<>>
    /\ status = STATUS_READY
    /\ accessories = <<>>
    /\ driver = [bridge |-> FALSE, starts |-> 0, stops |-> 0, config_changes |-> 0]
    /\ constructed = 0
    /\ adds = <<>>
    /\ bridge_op = NoBridgeOp
    /\ handler_calls = 0

\* No accessory has been built.
AccIdle ==
    /\ kind = ""
    /\ conf = <<>>
    /\ chars = <<>>
    /\ flags = <<>>
    /\ debounce = <<>>
    /\ timers = {}
    /\ now = 0
    /\ executor_jobs = <<>>
    /\ loop_jobs = <<>>
    /\ hub_calls = <<>>
    /\ writes = <<>>
    /\ updates = 0
    /\ forwarded = {}
    /\ last_op = NoOp

\* The aid storage has not been set up.
AidIdle ==
    /\ initialized = FALSE
    /\ allocations = <<>>
    /\ allocated_aids = {}
    /\ store = NoData
    /\ save_timer = NoTimer
    /\ aid_result = NoCall
    /\ returned_aids = [u \in UniqueIds |-> {}]
    /\ last_freed = {}
    /\ restarts = 0

\* The aid storage alone.
AidStart == AidInit /\ AccIdle /\ BridgeIdle /\ CtorIdle /\ KeyIdle /\ HostIdle

AidSpec == AidStart /\ [][AidNext]_vars

\* One accessory alone.
AccStart == AccInit /\ AidIdle /\ BridgeIdle /\ CtorIdle /\ KeyIdle /\ HostIdle

AccSpec == AccStart /\ [][AccNext]_vars

\* HomeKit alone.
BridgeStart == BridgeInit /\ AidIdle /\ AccIdle /\ CtorIdle /\ KeyIdle /\ HostIdle

BridgeSpec == BridgeStart /\ [][BridgeNext]_vars

\* The aid storage with the timer of the Store: the event loop lets the delay
\* of a scheduled save run out, and runs the write when it has.
AidLiveSpec ==
    /\ AidStart
    /\ [][AidNext]_vars
    /\ WF_vars(SaveDelayTick /\ UNCHANGED <<accVars, bridgeVars, ctorVars, keyVars, hostVars>>)
    /\ WF_vars(StoreWrite /\ UNCHANGED <<accVars, bridgeVars, ctorVars, keyVars, hostVars>>)

\* The construction of a thermostat or a water heater alone.
CtorStart == CtorInit /\ AidIdle /\ AccIdle /\ BridgeIdle /\ KeyIdle /\ HostIdle

CtorSpec == CtorStart /\ [][CtorNext]_vars

\* Two accessories and their debounced setters alone.
KeyStart == KeyInit /\ AidIdle /\ AccIdle /\ BridgeIdle /\ CtorIdle /\ HostIdle

KeySpec == KeyStart /\ [][KeyNext]_vars

\* HomeKit, the threads that run start and stop, and the event loop.
HostStart == HostInit /\ AidIdle /\ AccIdle /\ CtorIdle /\ KeyIdle

HostSpec == HostStart /\ [][HostNext]_vars

Init == AidInit /\ AccInit /\ BridgeInit /\ CtorInit /\ KeyInit

Next == AidNext \/ AccNext \/ BridgeNext \/ CtorNext \/ KeyNext \/ HostNext

Spec == Init /\ [][Next]_vars

(***************************************************************************)
(* Claims about the allocator (checked under AidSpec).                     *)
(***************************************************************************)
Usable(aid, allocated) == aid \notin INVALID_AIDS /\ aid \notin allocated

\* The step is a call of _get_or_allocate_aid for an identity that has no aid yet.
FirstAllocationCall ==
    /\ aid_result'.op = "get_or_allocate_aid"
    /\ aid_result'.unique_id \notin DOMAIN allocations

\* C1: once _get_or_allocate_aid has returned an aid for a device identity,
\* every later call for that identity returns the same aid, also after
\* allocations for other identities and after a restart that reloads the
\* table, until the identity is deleted: no identity has been given two
\* different aids since it was last deleted.
C1_StableAid == \A u \in UniqueIds : Cardinality(returned_aids[u]) <= 1

\* a lookup after a restart returned the aid, with other identities allocated
C1_Witness ==
    /\ restarts >= 1
    /\ aid_result.op = "get_or_allocate_aid"
    /\ aid_result.returned
    /\ aid_result.tried = 0
    /\ Cardinality(DOMAIN allocations) >= 2

\* C2: no two distinct device identities are mapped to the same aid.
C2_DistinctAids ==
    \A u, v \in DOMAIN allocations : u # v => allocations[u] # allocations[v]

\* both entities with the colliding legacy hash, and the third identity, hold aids
C2_Witness ==
    /\ DOMAIN allocations = UniqueIds
    /\ AdlerOf["lock.bdb"] = AdlerOf["lock.cbc"]
    /\ AdlerOf["lock.bdb"] \in allocated_aids

\* C3: an aid returned by get_or_allocate_aid_for_entity_id, with or without
\* a registry entry, is never 0 or 1.
C3_NeverReserved == aid_result.returned => aid_result.aid \notin INVALID_AIDS

\* C4: a first allocation takes the first candidate, in the order legacy
\* hash, strong hash, random values, that is not reserved and not allocated;
\* the strong hash is never taken while the legacy hash is usable.
C4_CandidateOrder ==
    [][(FirstAllocationCall /\ aid_result'.returned) =>
        LET r == aid_result'
            legacy == AdlerOf[r.entity_id]
            strong == FnvOf[r.unique_id]
        IN  /\ r.cands[1] = legacy
            /\ (r.tried >= 2 => r.cands[2] = strong)
            /\ \A i \in 3..Len(r.cands) : r.cands[i] \in RandomAids
            /\ Len(r.cands) = r.tried
            /\ r.tried <= 2 + RandomTries
            /\ r.aid = r.cands[r.tried]
            /\ Usable(r.aid, allocated_aids)
            /\ \A i \in 1..(r.tried - 1) : ~Usable(r.cands[i], allocated_aids)
            /\ (Usable(legacy, allocated_aids) => r.aid = legacy)
            /\ (r.aid = strong /\ strong # legacy => ~Usable(legacy, allocated_aids))
            /\ allocations'[r.unique_id] = r.aid
    ]_vars

\* the second of two entities with colliding legacy hashes got its strong hash
C4_Witness ==
    /\ aid_result.op = "get_or_allocate_aid"
    /\ aid_result.entity_id = "lock.cbc"
    /\ aid_result.tried = 2
    /\ aid_result.aid = FnvOf[aid_result.unique_id]
    /\ "z.lock.ywbb" \in DOMAIN allocations
    /\ allocations["z.lock.ywbb"] = AdlerOf["lock.cbc"]

\* C5: when the legacy hash, the strong hash and the 5 random values are all
\* reserved or allocated, the call raises after exactly these 7 candidates,
\* and the table, the allocated-aid set, the scheduled save and the store are
\* left as they were; and a call raises in no other case.
C5_Exhaustion ==
    [][FirstAllocationCall =>
        LET r == aid_result'
        IN  /\ r.raised <=> /\ Len(r.cands) = 2 + RandomTries
                             /\ \A i \in 1..Len(r.cands) :
                                   ~Usable(r.cands[i], allocated_aids)
            /\ r.raised => /\ r.tried = 2 + RandomTries
                           /\ r.cands[1] = AdlerOf[r.entity_id]
                           /\ r.cands[2] = FnvOf[r.unique_id]
                           /\ ~r.returned
                           /\ UNCHANGED <<allocations, allocated_aids, save_timer,
                                          store>>
    ]_vars

\* a call has raised while a save was scheduled
C5_Witness == aid_result.raised /\ save_timer # NoTimer

\* C6: for an entity without a registry entry the call returns the legacy hash
\* of the entity id and records nothing.
C6_FallbackFrame ==
    [][aid_result'.op = "fallback" =>
        /\ aid_result'.entity_id \notin DOMAIN EntityRegistry
        /\ aid_result'.returned
        /\ aid_result'.aid = AdlerOf[aid_result'.entity_id]
        /\ UNCHANGED <<allocations, allocated_aids, save_timer, store>>
    ]_vars

\* the fallback answered while the table held entries and a save was scheduled
C6_Witness ==
    /\ aid_result.op = "fallback"
    /\ allocations # <<>>
    /\ save_timer # NoTimer

\* C7 as stated: between delete_aid and the completed save, no other
\* identity is given the aid that was freed.
C7_FreedOnlyAfterSave ==
    \A f \in last_freed : \A u \in DOMAIN allocations :
        u # f[1] => allocations[u] # f[2]

\* C7 as amended: delete_aid removes the entry and takes its aid out of the
\* allocated-aid set in the same step, and schedules a save without writing
\* the store; the aid is usable by the next allocation at once.
C7_FreedAtOnce ==
    [][(aid_result'.op = "delete_aid" /\ aid_result'.unique_id \in DOMAIN allocations) =>
        LET u == aid_result'.unique_id
        IN  /\ u \notin DOMAIN allocations'
            /\ \A v \in DOMAIN allocations \ {u} :
                  v \in DOMAIN allocations' /\ allocations'[v] = allocations[v]
            /\ Usable(allocations[u], allocated_aids')
            /\ allocated_aids' = Range(allocations')
            /\ save_timer' = AID_MANAGER_SAVE_DELAY
            /\ store' = store
    ]_vars

\* another identity holds the freed aid while the save of the removal is pending
C7_Witness ==
    /\ save_timer # NoTimer
    /\ \E f \in last_freed : \E u \in DOMAIN allocations :
          u # f[1] /\ allocations[u] = f[2]


(***************************************************************************)
(* Claims about the accessories.                                           *)
(***************************************************************************)
\* The hub calls that answer write i.
CallsOf(i) == {k \in DOMAIN hub_calls : hub_calls[k].id = i}

\* No later write to the same setter came less than the delay after write i.
LastOfBurst(i) ==
    \A j \in (i + 1)..Len(writes) :
        writes[j].func = writes[i].func =>
            writes[j].t >= writes[i].t + DEBOUNCE_TIMEOUT

\* No write to the setter came after write i.
LastWrite(i) ==
    \A j \in (i + 1)..Len(writes) : writes[j].func # writes[i].func

\* Nothing of the setter is on its way.
Quiet(func) ==
    /\ func \notin DOMAIN debounce
    /\ \A timer \in timers : timer.func # func
    /\ \A i \in DOMAIN executor_jobs : executor_jobs[i].fn # func
    /\ \A i \in DOMAIN loop_jobs : writes[loop_jobs[i].id].func # func

\* The value a call of a debounced setter carries for the written attribute.
SentValue(call, func) ==
    CASE func = "set_target_temperature" -> call.data.temperature
      [] func = "set_cooling_threshold" -> call.data.target_temp_high
      [] func = "set_heating_threshold" -> call.data.target_temp_low

\* C8: writes to one debounced setter that each come less than the delay
\* after the one before are answered by one hub call, made once they have
\* stopped: only the last write of such a burst is ever forwarded, at most
\* once, with its own value and not before the delay has passed since it;
\* and when nothing of the setter is on its way any more, the last write
\* has been forwarded exactly once.
C8_Coalescing ==
    \A i \in DOMAIN writes :
        writes[i].func \in Debounced =>
            /\ Cardinality(CallsOf(i)) <= 1
            /\ \A k \in CallsOf(i) :
                  /\ LastOfBurst(i)
                  /\ hub_calls[k].t >= writes[i].t + DEBOUNCE_TIMEOUT
                  /\ SentValue(hub_calls[k], writes[i].func)
                         = temperature_to_states(writes[i].value, conf.unit)
            /\ (LastWrite(i) /\ Quiet(writes[i].func)) => Cardinality(CallsOf(i)) = 1

\* Two writes of different values to one debounced setter, the second less
\* than the delay after the first, have been answered by one call.
C8_Witness ==
    \E i, j \in DOMAIN writes :
        /\ i < j
        /\ writes[i].func \in Debounced
        /\ writes[j].func = writes[i].func
        /\ writes[j].value # writes[i].value
        /\ writes[j].t < writes[i].t + DEBOUNCE_TIMEOUT
        /\ LastWrite(j)
        /\ Quiet(writes[j].func)
        /\ CallsOf(i) = {}
        /\ Cardinality(CallsOf(j)) = 1

\* C9: once a controller write of the lock target state, the thermostat
\* target mode, target temperature or a threshold has reached the hub, the
\* next state change that carries the attribute does not write the
\* characteristic.
C9_EchoNotWritten ==
    last_op.op = "update_state" =>
        \A fl \in last_op.echo : CharOfFlag(fl) \notin last_op.written

\* C10: a state change delivered a second time in a row leaves every
\* characteristic as the first delivery left it.
C10_SecondDeliveryChangesNothing ==
    (last_op.op = "update_state" /\ last_op.repeat) => last_op.changed = {}

\* The calls of write i that the loop has not yet handed to the hub.
PendingOf(i) == {k \in DOMAIN loop_jobs : loop_jobs[k].id = i}

\* The data a call of the lock carries: the entity, and the code if one is
\* configured.
LockData ==
    IF conf.code = "" THEN [entity_id |-> conf.entity_id]
    ELSE [entity_id |-> conf.entity_id, code |-> conf.code]

\* C11: a lock turns the hub states unlocked, locked and unknown into the
\* current state 0, 1 and 3; a controller write of 0 or 1 makes exactly one
\* hub call, unlock for 0 and lock for 1, for the lock's entity and with
\* the configured code if there is one.
C11_LockTranslation ==
    kind = "Lock" =>
        /\ (last_op.op = "update_state" /\ ~last_op.raised) =>
               /\ last_op.st.state = "unlocked" => chars.char_current_state = 0
               /\ last_op.st.state = "locked" => chars.char_current_state = 1
               /\ last_op.st.state = "unknown" => chars.char_current_state = 3
        /\ \A i \in DOMAIN writes :
               writes[i].value \in {0, 1} =>
                   /\ Cardinality(CallsOf(i)) + Cardinality(PendingOf(i)) = 1
                   /\ \A k \in CallsOf(i) :
                         /\ hub_calls[k].domain = "lock"
                         /\ hub_calls[k].service =
                                IF writes[i].value = 0 THEN "unlock" ELSE "lock"
                         /\ hub_calls[k].data = LockData

\* A lock with a code has been told unlocked, locked and the hub has got
\* the call of a write of 0 and of a write of 1.
C11_Witness ==
    /\ kind = "Lock"
    /\ conf.code # ""
    /\ last_op.op = "update_state"
    /\ last_op.st.state = "unknown"
    /\ chars.char_current_state = 3
    /\ \E i, j \in DOMAIN writes :
          /\ writes[i].value = 0
          /\ writes[j].value = 1
          /\ \E k \in CallsOf(i) : hub_calls[k].service = "unlock"
          /\ \E k \in CallsOf(j) : hub_calls[k].service = "lock"

Thresholds == {"set_cooling_threshold", "set_heating_threshold"}

\* The calls of the threshold writes that have reached the hub: at most one
\* for a write, a set_temperature of the climate domain with both bounds,
\* the written one being the written value.
ThresholdCalls ==
    \A i \in DOMAIN writes :
        writes[i].func \in Thresholds =>
            /\ Cardinality(CallsOf(i)) <= 1
            /\ \A k \in CallsOf(i) :
                  /\ hub_calls[k].domain = "climate"
                  /\ hub_calls[k].service = "set_temperature"
                  /\ DOMAIN hub_calls[k].data =
                         {"entity_id", "target_temp_high", "target_temp_low"}
                  /\ hub_calls[k].data.entity_id = conf.entity_id
                  /\ SentValue(hub_calls[k], writes[i].func)
                         = temperature_to_states(writes[i].value, conf.unit)

\* The step in which a threshold setter makes its call: the other bound is
\* the value the other threshold characteristic has at that moment.
ThresholdIssue ==
    Len(loop_jobs') = Len(loop_jobs) + 1 =>
        LET job == loop_jobs'[Len(loop_jobs')]
            func == writes'[job.id].func
        IN  /\ func = "set_cooling_threshold" =>
                  job.data.target_temp_low =
                      temperature_to_states(chars.char_heating_thresh_temp, conf.unit)
            /\ func = "set_heating_threshold" =>
                  job.data.target_temp_high =
                      temperature_to_states(chars.char_cooling_thresh_temp, conf.unit)

\* C12: every hub call that comes of a write to the cooling or to the
\* heating threshold is one set-temperature call with both
\* target_temp_high and target_temp_low: the written value for the written
\* bound, the value of the other threshold characteristic for the other.
C12_ThresholdPair == [][ThresholdIssue /\ ThresholdCalls']_vars

\* The heating threshold was written, then the cooling threshold; the call
\* of the second has reached the hub with the first's value as its low.
C12_Witness ==
    \E i, j \in DOMAIN writes :
        /\ i < j
        /\ writes[i].func = "set_heating_threshold"
        /\ writes[j].func = "set_cooling_threshold"
        /\ \E k \in CallsOf(j) :
              /\ hub_calls[k].data.target_temp_high = 245
              /\ hub_calls[k].data.target_temp_low = 180
              /\ InitChars(kind, conf).char_heating_thresh_temp # 180

\* The modes a hub entity may list; "dry" has no protocol value.
HvacModes == {"off", "heat", "cool", "auto", "heat_cool", "fan_only", "dry"}

\* The hub mode the claim names for a protocol value.
Preferred(modes, v) ==
    CASE v = 0 -> "off"
      [] v = 1 -> "heat"
      [] v = 2 -> IF "cool" \in modes THEN "cool" ELSE "fan_only"
      [] v = 3 -> IF "auto" \in modes THEN "auto" ELSE "heat_cool"

\* For every set of modes the table offers the values of the modes in the
\* set, each with one mode, which is in the set and is the preferred one.
ModePreference ==
    \A modes \in SUBSET HvacModes :
        LET table == hc_homekit_to_hass(modes)
        IN  /\ DOMAIN table =
                   {HC_HASS_TO_HOMEKIT[m] : m \in modes \cap DOMAIN HC_HASS_TO_HOMEKIT}
            /\ \A v \in DOMAIN table :
                   /\ table[v] \in modes
                   /\ table[v] = Preferred(modes, v)

\* C13: whatever modes the hub entity lists, each protocol value offered
\* has one hub mode, a mode of the list: for 3 auto if the list has it and
\* heat_cool only if not, for 2 cool if the list has it and fan_only only
\* if not; a controller write of an offered value makes one set-hvac-mode
\* call with that hub mode.
C13_ModePreference ==
    /\ ModePreference
    /\ kind = "Thermostat" =>
           \A i \in DOMAIN writes :
               writes[i].func = "set_heat_cool" =>
                   /\ Cardinality(CallsOf(i)) + Cardinality(PendingOf(i)) = 1
                   /\ \A k \in CallsOf(i) :
                         /\ hub_calls[k].domain = "climate"
                         /\ hub_calls[k].service = "set_hvac_mode"
                         /\ hub_calls[k].data =
                                [entity_id |-> conf.entity_id,
                                 hvac_mode |-> Preferred(conf.hc_modes,
                                                         writes[i].value)]

\* A thermostat whose entity lists auto and heat_cool, and fan_only without
\* cool: the write of 3 has called for auto, the write of 2 for fan_only.
C13_Witness ==
    /\ kind = "Thermostat"
    /\ {"auto", "heat_cool", "fan_only"} \subseteq conf.hc_modes
    /\ "cool" \notin conf.hc_modes
    /\ \E i, j \in DOMAIN writes :
          /\ writes[i].func = "set_heat_cool" /\ writes[i].value = 3
          /\ writes[j].func = "set_heat_cool" /\ writes[j].value = 2
          /\ \E k \in CallsOf(i) : hub_calls[k].data.hvac_mode = "auto"
          /\ \E k \in CallsOf(j) : hub_calls[k].data.hvac_mode = "fan_only"

\* The entity has an accessory in a registry, under the aid of its entity id.
Published(accs, entity_id) ==
    \E aid \in DOMAIN accs :
        /\ accs[aid].entity_id = entity_id
        /\ aid = Adler32Of[entity_id]

\* self._config.get(entity_id, {}) of the configuration HomeKit was made with
ConfiguredFor(entity_id) ==
    IF entity_id \in DOMAIN configured THEN configured[entity_id] ELSE <<>>

\* The entity passes the filter, its aid is not a reserved one and a rule
\* of the mapper matches it.
Eligible(state) ==
    /\ state.entity_id \in entity_filter
    /\ Adler32Of[state.entity_id] \notin {0, 1}
    /\ a_type_of(state, ConfiguredFor(state.entity_id)) # NoType

\* C14: add_bridge_accessory puts an entity into the registry of the
\* bridge if and only if it passes the filter, has a valid aid and is
\* matched by a rule of the mapper; in each failing case it leaves the
\* registry as it was.
C14_AddedIffEligible ==
    \A n \in DOMAIN adds :
        LET id == adds[n].state.entity_id
        IN  /\ Eligible(adds[n].state) <=>
                  (~Published(adds[n].before, id) /\ Published(adds[n].after, id))
            /\ ~Eligible(adds[n].state) => adds[n].after = adds[n].before

\* The accessory type the claim gives a cover: by its device class and by
\* the bits for open (1), close (2) and set-position (4).
ExpectedCover(state) ==
    LET features == IF "supported_features" \in DOMAIN state.attributes
                    THEN state.attributes.supported_features ELSE 0
        garage == /\ "device_class" \in DOMAIN state.attributes
                  /\ state.attributes.device_class = "garage"
        open_close == features % 2 = 1 \/ (features \div 2) % 2 = 1
        set_position == (features \div 4) % 2 = 1
    IN  IF garage /\ open_close THEN "GarageDoorOpener"
        ELSE IF set_position THEN "WindowCovering"
        ELSE IF open_close THEN "WindowCoveringBasic"
        ELSE NoType

\* C15: a cover is a GarageDoorOpener if its device class is garage and it
\* supports open or close; if not, a WindowCovering if it supports
\* set-position; if not, a WindowCoveringBasic if it supports open or
\* close; if not, it is not exposed.
C15_CoverFirstMatch ==
    \A n \in DOMAIN adds :
        adds[n].state.domain = "cover" =>
            LET expected == ExpectedCover(adds[n].state)
                id == adds[n].state.entity_id
            IN  /\ adds[n].a_type = expected
                /\ expected = NoType => ~Published(adds[n].after, id)
                /\ expected # NoType =>
                       /\ Published(adds[n].after, id)
                       /\ adds[n].after[Adler32Of[id]].a_type = expected

\* A garage cover that supports open and set-position is in the bridge as
\* a GarageDoorOpener.
C15_Witness ==
    /\ status = STATUS_RUNNING
    /\ \E aid \in DOMAIN accessories :
          /\ accessories[aid].a_type = "GarageDoorOpener"
          /\ \E n \in DOMAIN adds :
                /\ adds[n].state.entity_id = accessories[aid].entity_id
                /\ adds[n].state.attributes =
                       [device_class |-> "garage", supported_features |-> 5]

\* C16: the unit of measurement of a sensor counts only when the sensor
\* has no device class: a sensor with a device class is not made a
\* TemperatureSensor or a LightSensor by its unit.
C16_UnitOnlyFallback ==
    \A n \in DOMAIN adds :
        (/\ adds[n].state.domain = "sensor"
         /\ "device_class" \in DOMAIN adds[n].state.attributes) =>
            /\ adds[n].a_type = "TemperatureSensor" =>
                   adds[n].state.attributes.device_class = DEVICE_CLASS_TEMPERATURE
            /\ adds[n].a_type = "LightSensor" =>
                   adds[n].state.attributes.device_class = DEVICE_CLASS_ILLUMINANCE

\* self._config.pop(entity_id, {}) as a call of add_bridge_accessory would
\* find it now
ConfigNow(entity_id) ==
    IF entity_id \in DOMAIN entity_config THEN entity_config[entity_id] ELSE <<>>

\* C17: the accessory type of an entity is decided by its state and its
\* configured per-entity configuration alone, the same at every call of
\* add_bridge_accessory for it: a call leaves the configuration a later
\* call for the entity uses as it was configured.
C17_ClassificationKeepsConfiguration ==
    \A i \in DOMAIN hass_states :
        LET state == hass_states[i]
            id == state.entity_id
        IN  id \in entity_filter =>
                /\ a_type_of(state, ConfigNow(id)) = a_type_of(state, ConfiguredFor(id))
                /\ ConfigNow(id) = ConfiguredFor(id)

\* What start and stop may touch.
Lifecycle == <<status, accessories, entity_config, driver, constructed>>

\* The handler that runs in this step is one of ops.
Runs(ops) == handler_calls' = handler_calls + 1 /\ bridge_op'.op \in ops

\* C18: start does something only in status READY and stop only in status
\* RUNNING; in any other status they leave the status, the registry and
\* the driver as they are; the start of the driver is scheduled at most
\* once and so is its stop.
C18_LifecycleIdempotent ==
    [][/\ (Runs({"start", "service_start"}) /\ status # STATUS_READY) =>
              UNCHANGED Lifecycle
       /\ (Runs({"start", "service_start"}) /\ status = STATUS_READY) =>
              /\ status' \in {STATUS_RUNNING, STATUS_WAIT}
              /\ status' = STATUS_RUNNING => driver'.starts = driver.starts + 1
       /\ (Runs({"stop"}) /\ status # STATUS_RUNNING) => UNCHANGED Lifecycle
       /\ (Runs({"stop"}) /\ status = STATUS_RUNNING) =>
              /\ status' = STATUS_STOPPED
              /\ driver'.stops = driver.stops + 1
              /\ UNCHANGED accessories
       /\ driver'.starts <= 1
       /\ driver'.stops <= 1]_vars

\* start was called after HomeKit had been started and stopped: the driver
\* has been started once and stopped once.
C18_Witness ==
    /\ bridge_op.op \in {"start", "service_start"}
    /\ bridge_op.status = STATUS_STOPPED
    /\ status = STATUS_STOPPED
    /\ accessories # <<>>
    /\ driver.starts = 1
    /\ driver.stops = 1

\* C19: reset_accessories takes the accessory of each named entity that is
\* in the bridge out and puts under the same aid an accessory that was
\* constructed anew, from the configuration the entity has now, not the
\* object that was there.
C19_ResetRebuilds ==
    (bridge_op.op = "reset" /\ bridge_op.status = STATUS_RUNNING) =>
        \A i \in DOMAIN bridge_op.entity_ids :
            LET aid == generate_aid(bridge_op.entity_ids[i])
            IN  aid \in DOMAIN bridge_op.accessories =>
                    /\ aid \in DOMAIN accessories
                    /\ accessories[aid].entity_id = bridge_op.accessories[aid].entity_id
                    /\ accessories[aid].instance # bridge_op.accessories[aid].instance
                    /\ accessories[aid].config = ConfigNow(accessories[aid].entity_id)

\* C20: each accessory in the bridge is kept under its own aid, and two
\* different entities that pass the filter and the mapper do not get the
\* same aid: once start has run both are in the bridge, neither in the
\* place of the other nor kept out by it.
C20_OneAidPerEntity ==
    /\ \A aid \in DOMAIN accessories : accessories[aid].aid = aid
    /\ status # STATUS_READY =>
           \A i, j \in DOMAIN hass_states :
               (/\ i # j
                /\ Eligible(hass_states[i])
                /\ Eligible(hass_states[j])) =>
                   /\ generate_aid(hass_states[i].entity_id)
                          # generate_aid(hass_states[j].entity_id)
                   /\ Published(accessories, hass_states[i].entity_id)
                   /\ Published(accessories, hass_states[j].entity_id)

\* C21: a start called in status READY ends in status RUNNING with the
\* start of the driver scheduled, whatever entities the hub has; an entity
\* without an accessory type or without a valid aid is passed over, and
\* the status is never left at WAIT.
C21_StartCompletes ==
    /\ status # STATUS_WAIT
    /\ (bridge_op.op \in {"start", "service_start"}
            /\ bridge_op.status = STATUS_READY) =>
           /\ status = STATUS_RUNNING
           /\ driver.starts = 1
           /\ driver.bridge
           /\ Len(adds) = Len(hass_states)

\* C22: a hub value that the table of the adapter does not have (a lock
\* state other than unlocked, locked, unknown; an HVAC mode outside the
\* mode table; an HVAC action outside the action table) changes no
\* characteristic and raises no error.
C22_UnmappedIgnored ==
    (last_op.op = "update_state" /\ kind \in {"Lock", "Thermostat"}) =>
        LET st == last_op.st
        IN  /\ (kind = "Lock"
                    /\ st.state \notin {"unlocked", "locked", "unknown"}) =>
                   /\ last_op.written = {}
                   /\ ~last_op.raised
            /\ (kind = "Thermostat"
                    /\ st.state \notin {"off", "heat", "cool", "auto", "heat_cool",
                                        "fan_only"}) =>
                   /\ "char_target_heat_cool" \notin last_op.written
                   /\ ~last_op.raised
            /\ (kind = "Thermostat"
                    /\ "hvac_action" \in DOMAIN st.attributes
                    /\ st.attributes.hvac_action
                           \notin {"off", "idle", "heating", "cooling"}) =>
                   /\ "char_current_heat_cool" \notin last_op.written
                   /\ ~last_op.raised

\* C23: a state change that reaches an accessory through
\* update_state_callback and update_state is turned into characteristic
\* values by the accessory, of whatever class it is, and does not end in
\* NotImplementedError: for a media player the on/off characteristic
\* follows the state.
C23_EveryClassHandlesUpdate ==
    (last_op.op = "update_state" /\ kind = "MediaPlayer") =>
        /\ ~last_op.raised
        /\ last_op.st.state = "playing" => chars.on_off = TRUE
        /\ last_op.st.state = "off" => chars.on_off = FALSE

\* The writes to setters that are not debounced.
Direct(i) == writes[i].func \notin Debounced

\* The calls of the direct writes have reached the hub in the order of the
\* writes: none is there before the call of an earlier one.
InWriteOrder ==
    \A i, j \in DOMAIN writes :
        (i < j /\ Direct(i) /\ Direct(j)) =>
            /\ \A ki \in CallsOf(i), kj \in CallsOf(j) : ki < kj
            /\ CallsOf(j) # {} => PendingOf(i) = {}

\* C24: the hub calls of the setters that are not debounced are made in the
\* order in which the controller wrote, and the setter returns without
\* waiting for the hub: the step of the write hands the call to the loop
\* and the hub has received nothing more when it ends.
C24_OrderPreserved ==
    [][/\ InWriteOrder'
       /\ Len(writes') > Len(writes) => hub_calls' = hub_calls]_vars

\* Two direct writes of different values to one setter have both reached
\* the hub, the call of the first before the call of the second.
C24_Witness ==
    /\ Len(writes) = 2
    /\ Direct(1) /\ Direct(2)
    /\ writes[1].func = writes[2].func
    /\ writes[1].value # writes[2].value
    /\ Len(hub_calls) = 2
    /\ hub_calls[1].id = 1
    /\ hub_calls[2].id = 2

(***************************************************************************)
(* Claims about the constructors (checked under CtorSpec).                 *)
(***************************************************************************)
Abs(x) == IF x < 0 THEN -x ELSE x

DefaultBound(k, name) ==
    CASE k = "Thermostat" /\ name = "min_temp" -> DEFAULT_MIN_TEMP
      [] k = "Thermostat" /\ name = "max_temp" -> DEFAULT_MAX_TEMP
      [] k = "WaterHeater" /\ name = "min_temp" -> DEFAULT_MIN_TEMP_WATER_HEATER
      [] k = "WaterHeater" /\ name = "max_temp" -> DEFAULT_MAX_TEMP_WATER_HEATER

\* The bound is what the claim says of the attribute of that name: a
\* multiple of 0.5; the multiple of 0.5 nearest to the converted attribute
\* if the hub supplies it, zero included; the default if it does not.
BoundFollows(bound, name) ==
    /\ bound % 5 = 0
    /\ IF name \in DOMAIN ctor_attributes
       THEN 2 * Abs(bound - temperature_to_homekit(ctor_attributes[name], ctor_unit)) <= 5
       ELSE bound = DefaultBound(ctor_kind, name)

\* C25: the minimum and the maximum of the target temperature and of the
\* threshold characteristics are multiples of 0.5; each is the converted
\* min_temp (max_temp) of the hub rounded to the nearest 0.5 whenever the hub
\* supplies the attribute, a supplied 0 included, and the default bound only
\* when the attribute is absent.
C25_TemperatureBounds ==
    \A char \in DOMAIN properties :
        /\ BoundFollows(properties[char].minValue, "min_temp")
        /\ BoundFollows(properties[char].maxValue, "max_temp")

(***************************************************************************)
(* More claims about the allocator (checked under AidSpec).                *)
(***************************************************************************)
\* C26: in every reachable state (after the load, after each allocation and
\* each deletion, and while a delayed save is pending) allocated_aids is
\* exactly the set of the values of the allocation table.
C26_SetIsTableValues == allocated_aids = Range(allocations)

\* A loaded table has grown by an allocation, an entry has been deleted, and
\* the save of it is still pending.
C26_Witness ==
    /\ initialized
    /\ restarts = 1
    /\ Cardinality(DOMAIN allocations) >= 2
    /\ last_freed # {}
    /\ save_timer # NoTimer

\* The step is a first allocation or a deletion that removes an entry.
Mutation ==
    /\ aid_result'.op \in {"get_or_allocate_aid", "delete_aid"}
    /\ allocations' # allocations

\* What the Store holds is the table in memory.
Persisted == store.unique_ids = allocations

\* C27: every first allocation and every deletion that removes an entry
\* schedules a save after AID_MANAGER_SAVE_DELAY; whatever the Store writes
\* is the table as it is when the write runs, so the mutations of a burst
\* inside one delay are all in it; and once the mutations have stopped, the
\* stored table is, from some point on, the table in memory.
C27_EventuallyDurable ==
    /\ [][/\ Mutation => save_timer' = AID_MANAGER_SAVE_DELAY
          /\ store' # store => store' = Saved(allocations)]_vars
    /\ <>[][allocations' = allocations]_vars => <>[](initialized => Persisted)

\* Nothing has been written yet; an allocation and a deletion have been made
\* within one delay, an entry is in the table, and the delay has run out.
C27_Witness ==
    /\ initialized
    /\ ~store.data
    /\ allocations # <<>>
    /\ last_freed # {}
    /\ save_timer = 0

\* The step is a lookup of an identity that has an aid, or a delete of an
\* identity that has none.
NothingToDo ==
    \/ /\ aid_result'.op = "get_or_allocate_aid"
       /\ aid_result'.unique_id \in DOMAIN allocations
    \/ /\ aid_result'.op = "delete_aid"
       /\ aid_result'.unique_id \notin DOMAIN allocations

\* C28: a lookup of an identity that already has an aid, and a delete of an
\* identity that has none, leave the allocation table and the set of
\* allocated aids as they are and schedule no save.
C28_AllocatorFrame ==
    [][NothingToDo => UNCHANGED <<allocations, allocated_aids, save_timer, store>>]_vars

\* An identity without an aid has been deleted while others have theirs and
\* all is saved: no save is scheduled.
C28_Witness ==
    /\ aid_result.op = "delete_aid"
    /\ aid_result.unique_id \notin DOMAIN allocations
    /\ Cardinality(DOMAIN allocations) = 2
    /\ \A u \in DOMAIN allocations : returned_aids[u] # {}
    /\ store = Saved(allocations)
    /\ save_timer = NoTimer

(***************************************************************************)
(* Claims about the debounce decorator (checked under AccSpec).            *)
(***************************************************************************)
\* The setter runs the executor was given for write i.
JobsOf(i) ==
    {k \in DOMAIN executor_jobs :
        executor_jobs[k].fn # "update_state" /\ executor_jobs[k].id = i}

\* How often write i has been handed on: to the executor, to the loop, to
\* the hub.
HandedOn(i) ==
    Cardinality(JobsOf(i)) + Cardinality(PendingOf(i)) + Cardinality(CallsOf(i))

\* Every listener that waits is the one of a pending entry, and every
\* pending entry has its listener.
OneTimerPerEntry == timers = {debounce[f].timer : f \in DOMAIN debounce}

\* A write that is still pending has not been handed on.
PendingNotHandedOn == \A f \in DOMAIN debounce : HandedOn(debounce[f].id) = 0

\* No debounced write is handed on twice.
HandedOnAtMostOnce ==
    \A i \in DOMAIN writes : writes[i].func \in Debounced => HandedOn(i) <= 1

\* An entry is put into self.debounce only by the write it belongs to; if it
\* takes the place of a pending entry, the listener of that entry has been
\* removed.
EntryIsNewestWrite ==
    \A f \in DOMAIN debounce' :
        (f \notin DOMAIN debounce \/ debounce[f].id # debounce'[f].id) =>
            /\ Len(writes') = Len(writes) + 1
            /\ debounce'[f].id = Len(writes')
            /\ writes'[Len(writes')].func = f
            /\ f \in DOMAIN debounce => debounce[f].timer \notin timers'

\* A write is handed on only as the pending entry of its setter, by the
\* listener whose point in time has come, which takes the entry away.
HandedOnFromEntry ==
    \A i \in DOMAIN writes :
        (writes[i].func \in Debounced /\ HandedOn(i) = 0 /\ HandedOn(i)' > 0) =>
            /\ writes[i].func \in DOMAIN debounce
            /\ debounce[writes[i].func].id = i
            /\ now >= debounce[writes[i].func].timer.deadline
            /\ writes[i].func \notin DOMAIN debounce'

RunsOf(i) == {k \in DOMAIN setter_runs : setter_runs[k].id = i}

\* The step is a write to the setter of entry e of accessory a.
WriteOfSameKey(a, e) ==
    /\ Len(setter_writes') = Len(setter_writes) + 1
    /\ setter_writes'[Len(setter_writes')].self = a
    /\ setter_writes'[Len(setter_writes')].func = e.func

\* The step is the listener of entry e of accessory a, its point in time
\* reached, handing the entry to the executor.
TimerOfSameKey(a, e) ==
    /\ utcnow >= e.listener.deadline
    /\ e.listener.self = a
    /\ e.listener.func = e.func
    /\ Len(setter_jobs') = Len(setter_jobs) + 1
    /\ setter_jobs'[Len(setter_jobs')] =
           [self |-> a, func |-> e.func, value |-> e.value, id |-> e.id]

\* A pending entry goes, or loses its listener, only by a write to its own
\* setter of its own accessory or by its own listener.
KeysIndependent ==
    \A a \in Accessories :
        \A k \in DOMAIN self_debounce[a] :
            LET e == self_debounce[a][k]
                gone == \/ k \notin DOMAIN self_debounce'[a]
                        \/ self_debounce'[a][k] # e
                        \/ e.listener \notin listeners'
            IN  gone => (WriteOfSameKey(a, e) \/ TimerOfSameKey(a, e))

\* No later write to the setter of write i of the same accessory.
LastWriteOfKey(i) ==
    \A j \in (i + 1)..Len(setter_writes) :
        \/ setter_writes[j].self # setter_writes[i].self
        \/ setter_writes[j].func # setter_writes[i].func

\* The setter is run for a write at most once, for the accessory, with the
\* setter and the value of that write; and when nothing is pending, the last
\* write of every key has been run.
OwnCallPerKey ==
    \A i \in DOMAIN setter_writes :
        /\ Cardinality(RunsOf(i)) <= 1
        /\ \A k \in RunsOf(i) :
              /\ setter_runs[k].self = setter_writes[i].self
              /\ setter_runs[k].func = setter_writes[i].func
              /\ setter_runs[k].value = setter_writes[i].value
        /\ (LastWriteOfKey(i) /\ listeners = {} /\ setter_jobs = <<>>) =>
               Cardinality(RunsOf(i)) = 1

\* C30: a pending debounced write is cancelled or consumed only by a write
\* to, or by the listener of, the same setter of the same accessory; a write
\* to another setter of the accessory or to another accessory leaves it
\* pending with its listener, and the write of each key gets its own run of
\* the setter, hence its own hub call.
C30_KeysIndependent == [][KeysIndependent /\ OwnCallPerKey']_vars

\* The target temperature of the water heater was written less than the
\* delay after the target temperature of the thermostat, with another value:
\* both writes have been run, each for its accessory with its value.
C30_Witness ==
    /\ Len(setter_writes) = 2
    /\ setter_writes[1].self # setter_writes[2].self
    /\ setter_writes[1].func = setter_writes[2].func
    /\ setter_writes[1].value # setter_writes[2].value
    /\ setter_writes[2].t < setter_writes[1].t + DEBOUNCE_TIMEOUT
    /\ Cardinality(RunsOf(1)) = 1
    /\ Cardinality(RunsOf(2)) = 1

(***************************************************************************)
(* Claims about the suppression flags (checked under AccSpec).             *)
(***************************************************************************)
\* The flag a setter raises.
FlagOfSetter(func) ==
    CASE func = "set_state" -> "flag_state"
      [] func = "set_heat_cool" -> "flag_heat_cool"
      [] func = "set_target_temperature" -> "flag_temperature"
      [] func = "set_cooling_threshold" -> "flag_coolingthresh"
      [] func = "set_heating_threshold" -> "flag_heatingthresh"

\* The flag of a debounced write is up from the moment the write is issued.
FlagUpWhilePending == \A func \in DOMAIN debounce : flags[FlagOfSetter(func)]

\* A state change handled while a debounced write waits for its delay does
\* not write the characteristic the controller wrote.
PendingWriteKept ==
    last_op.op = "update_state" =>
        \A func \in DOMAIN debounce :
            CharOfFlag(FlagOfSetter(func)) \notin last_op.written

\* C31: the flag of an attribute is raised when the controller write is
\* issued, for the debounced characteristics (target temperature, cooling
\* and heating threshold) too, so that no state change of the hub handled
\* between the write and its echo, the debounce delay included, writes the
\* characteristic the controller wrote.
C31_FlagAtWrite == PendingWriteKept /\ FlagUpWhilePending

(***************************************************************************)
(* More claims about HomeKit (checked under BridgeSpec).                   *)
(***************************************************************************)
\* The place of a status on the way READY, WAIT, RUNNING, STOPPED.
StatusRank(st) ==
    CASE st = STATUS_READY -> 0
      [] st = STATUS_WAIT -> 1
      [] st = STATUS_RUNNING -> 2
      [] st = STATUS_STOPPED -> 3

\* C33: the status only moves forward on READY, WAIT, RUNNING, STOPPED; it
\* becomes STOPPED only from RUNNING; once STOPPED it stays so and no later
\* start schedules the driver again; and the stop of the driver is scheduled
\* only after its start was.
C33_StatusMonotone ==
    [][/\ StatusRank(status') >= StatusRank(status)
       /\ (status' = STATUS_STOPPED /\ status # STATUS_STOPPED) =>
              status = STATUS_RUNNING
       /\ status = STATUS_STOPPED =>
              (status' = STATUS_STOPPED /\ driver'.starts = driver.starts)
       /\ driver'.stops > driver.stops =>
              (driver.starts = 1 /\ driver'.stops = 1)
       /\ driver'.starts <= 1]_vars

\* Started, stopped, and then asked to start again: the status is STOPPED
\* and the driver was started once.
C33_Witness ==
    /\ status = STATUS_STOPPED
    /\ bridge_op.op \in {"start", "service_start"}
    /\ bridge_op.status = STATUS_STOPPED
    /\ driver.starts = 1
    /\ driver.stops = 1

(***************************************************************************)
(* Claims about the threads of the host (checked under HostSpec).          *)
(***************************************************************************)
\* The states on their way to update_state_callback of an accessory object.
QueuedFor(instance) ==
    {loop[k].version : k \in {n \in DOMAIN loop :
                                 /\ loop[n].job = "update_state_callback"
                                 /\ loop[n].instance = instance}}

\* The objects the loop has something to run for, or has run something for.
Touched ==
    tracked \cup {i \in DOMAIN delivered : delivered[i] # {}}
            \cup {loop[k].instance : k \in {n \in DOMAIN loop : loop[n].instance # 0}}

\* An accessory is subscribed, run or given a state only when start has
\* constructed it and added it to the bridge and the driver has started.
UpdateAfterConstruction ==
    Touched # {} =>
        /\ Touched \subseteq Instances
        /\ start_pc = "returned"
        /\ driver_state # "new"

\* A subscribed accessory gets, or has on its way, every state of its
\* entity from the one run_handler read to the latest.
NoChangeMissed ==
    \A i \in tracked :
        \E first \in 0..versions[EntityOf(i)] :
            delivered[i] \cup QueuedFor(i) = first..versions[EntityOf(i)]

\* C32: update_state_callback, and with it update_state, is invoked only on
\* an accessory that is constructed: the subscription and the first push of
\* the state are made in run_handler only, after start has constructed the
\* accessory and added it to the bridge and the driver has started; and no
\* state change between the read of the state and the subscription is
\* missed.
C32_NoUpdateBeforeConstruction == UpdateAfterConstruction /\ NoChangeMissed

\* The entity changed its state after start had constructed its accessory
\* and before run_handler ran, and once more after: the accessory got the
\* state run_handler read and the later one.
C32_Witness ==
    \E i \in tracked :
        /\ delivered[i] = {1, 2}
        /\ versions[EntityOf(i)] = 2
        /\ loop = <<>>

\* C34: a stop that is called once start has been entered, also while
\* start is still at work (status WAIT), is not lost: when start has
\* returned and the loop has run what it was given, the driver is not
\* running.
C34_StopNotLost ==
    (bridge_op.op = "stop" /\ start_pc = "returned" /\ loop = <<>>) =>
        driver_state # "running"

(***************************************************************************)
(* Claims about the reset (checked under BridgeSpec).                      *)
(***************************************************************************)
\* The places of the events of a kind in a log.
Places(log, event) == {k \in DOMAIN log : log[k].event = event}

\* The aids the published accessories of the named entities have.
NamedPublished(entity_ids) ==
    {generate_aid(entity_ids[i]) : i \in DOMAIN entity_ids} \cap DOMAIN accessories

\* The step is a reset request.
ResetRequest == bridge_op'.op = "reset" /\ handler_calls' = handler_calls + 1

UpdateStateRuns ==
    /\ Len(executor_jobs') < Len(executor_jobs)
    /\ last_op'.op = "update_state"

\* C36: a flag a controller write has raised keeps exactly the next state
\* change that carries its attribute from writing the characteristic, and
\* that state change clears it; a state change that does not carry the
\* attribute leaves the flag up; with the flag down a state change that
\* carries the attribute writes the characteristic.
C36_OneUpdatePerFlag ==
    [][UpdateStateRuns =>
          \A fl \in DOMAIN flags :
              LET carried == fl \in Carried(last_op'.st)
              IN  /\ (flags[fl] /\ carried) =>
                        (~flags'[fl] /\ CharOfFlag(fl) \notin last_op'.written)
                  /\ (flags[fl] /\ ~carried) => flags'[fl]
                  /\ (~flags[fl] /\ carried) =>
                        (~flags'[fl] /\ CharOfFlag(fl) \in last_op'.written)]_vars

\* The step is a controller write of the target state of a lock.
LockWrite == kind = "Lock" /\ Len(writes') = Len(writes) + 1

\* C37: a write of 0 or 1 to the target state of a lock hands one call to
\* the loop; a write of another value hands none and leaves the flag and
\* everything else the lock keeps as it was.
C37_LockOtherValues ==
    [][LockWrite =>
          IF writes'[Len(writes')].value \in {0, 1}
          THEN Len(loop_jobs') = Len(loop_jobs) + 1
          ELSE /\ loop_jobs' = loop_jobs
               /\ hub_calls' = hub_calls
               /\ flags' = flags
               /\ UNCHANGED <<debounce, timers, executor_jobs>>]_vars

ModeWrites == {i \in DOMAIN writes : writes[i].func = "set_heat_cool"}

\* C39: the target mode of a water heater holds 1 (heat) after every write
\* and every state change, and no write of the mode gives a call to the
\* loop or the hub.
C39_WaterHeaterHeat ==
    kind = "WaterHeater" =>
        /\ chars.char_target_heat_cool = 1
        /\ \A k \in DOMAIN loop_jobs : loop_jobs[k].id \notin ModeWrites
        /\ \A k \in DOMAIN hub_calls : hub_calls[k].id \notin ModeWrites

\* A water heater whose mode was written as off and as heat and that has
\* then taken a state change of the hub.
C39_Witness ==
    /\ kind = "WaterHeater"
    /\ \E i, j \in ModeWrites : writes[i].value = 0 /\ writes[j].value = 1
    /\ last_op.op = "update_state"
    /\ last_op.st.state = "eco"
    /\ executor_jobs = <<>>

====
